---- MODULE Spec2Model ----
(***************************************************************************)
(* Model of the OhmGuard mobile client's alert synchronisation core:       *)
(* the zustand alert store (frontend/src/store/alertStore.ts), the REST    *)
(* calls it awaits (alertsApi in services/api), and the socket bridge that *)
(* feeds pushed events into it (SocketService.setupEventListeners and the  *)
(* AuthGuard effect that registers the store's handlers).                  *)
(* Around it: the socket service's connection handling (connect,           *)
(* disconnect and the transport's reconnection), the api instance with its *)
(* token refresh, the auth store (login, logout, checkAuth), the alerts    *)
(* screen's counter and the detail screen's acknowledge button.            *)
(*                                                                         *)
(* JavaScript runs every synchronous stretch of a handler atomically, so   *)
(* an async store action is two actions here: the part before the await    *)
(* (the request is issued) and the continuation after it (the response is  *)
(* handled).  In between the request sits in `inflight`, where the backend *)
(* answers it; responses may come back in any order.                       *)
(***************************************************************************)
EXTENDS Integers, Sequences, FiniteSets, TLC

\* ---------------------------------------------------------------- bounds
MaxId == 2          \* alert ids are 1..MaxId
MaxInFlight == 1    \* REST requests outstanding at the same time
MaxRacing == 2      \* REST requests outstanding at the same time, racing scenario
MaxAlerts == 2      \* cap on the length of the client's collection

MaxHandles == 3     \* transport handles io() creates in one run
MaxTokens == 2      \* token pairs the server issues in one run
MaxMounts == 2      \* AlertDetailScreen instances mounted in one run

\* ---------------------------------------------------------------- domain
Ids == 1..MaxId

\* the handles io() returns, in the order of creation
Handles == 1..MaxHandles

\* the values of the callback slots: null, the callbacks the AuthGuard effect
\* registers (they call the alert store), and a callback of another caller
NoHandler == 0
StoreHandler == 1
OtherHandler == 2
Callbacks == {StoreHandler, OtherHandler}

\* SocketService.maxReconnectAttempts, given to io() as reconnectionAttempts
maxReconnectAttempts == 5

\* User.tenant_id values
Tenants == {"tenantA", "tenantB"}

\* User.role values: one that may acknowledge, one that may not
Roles == {"OPERATOR", "VIEWER"}

\* interface User, reduced to role and tenant
User == [role : Roles, tenant_id : Tenants \cup {"null"}]

\* user: User | null
NoUser == [role |-> "null", tenant_id |-> "null"]

\* the requests of the api instance, by the caller that awaits them
StoreOwners == {"fetchAlerts", "refreshAlerts"}
AuthOwners == {"login", "me"}
Owners == StoreOwners \cup AuthOwners

\* the asynchronous actions of the auth store
AuthOps == {"login", "logout", "checkAuth"}

\* a request slot with no request in it
IdleCall == [pc |-> "idle", tk |-> 0, retry |-> FALSE, g |-> 0, detail |-> "null"]

\* an auth store action that is not running
IdleTask ==
    [pc |-> "idle", res |-> "null", detail |-> "null", usr |-> NoUser, tok |-> 0, g |-> 0]

\* EventType (types): the two in-scope types and one out-of-scope type
EventType == {"FALL", "PRE_FALL", "PRESENCE"}

\* EventStatus (types)
EventStatus == {"NEW", "ACK"}

\* STATUS_FILTERS of the alerts screen: the values setStatusFilter receives
STATUS_FILTERS == {"ALL", "NEW", "ACK"}

\* interface Alert, reduced to identity, classification and lifecycle state
Alert == [id : Ids, type : EventType, status : EventStatus]

\* selectedAlert: Alert | null
Null == [id |-> 0, type |-> "null", status |-> "null"]

\* ---------------------------------------------------------------- state
VARIABLES
    alerts,          \* AlertState.alerts
    selectedAlert,   \* AlertState.selectedAlert
    isLoading,       \* AlertState.isLoading
    isRefreshing,    \* AlertState.isRefreshing
    error,           \* AlertState.error
    statusFilter,    \* AlertState.statusFilter
    inflight,        \* REST requests awaiting their continuation
    db,              \* the backend's events, in the order GET /events returns
    onNewAlert,      \* SocketService.onNewAlert slot
    onEventUpdated,  \* SocketService.onEventUpdated slot
    last,            \* the store operation that ran last and what it returned
    socket,          \* SocketService.socket: 0 (null) or the handle io() returned
    tenantId,        \* SocketService.tenantId ("null": none)
    made,            \* number of handles io() has created
    open,            \* handles whose transport is alive (created, not disconnected)
    conn,            \* handles h with h.connected
    sendBuffer,      \* per handle: packets emitted while it was not connected
    rooms,           \* per handle: the tenant rooms the server holds it in
    effects,         \* what the last socket step did to the transport, in order
    reconnectAttempts, \* SocketService.reconnectAttempts
    backoff,         \* per handle: reconnection attempts its manager has started
    readyState,      \* per handle: its manager is "opening", "open" or "closed"
    user,            \* AuthState.user (NoUser: null)
    isAuthenticated, \* AuthState.isAuthenticated
    authIsLoading,   \* AuthState.isLoading
    authError,       \* AuthState.error
    accessToken,     \* SecureStore item ohmguard_access_token (0: none)
    refreshToken,    \* SecureStore item ohmguard_refresh_token (0: none)
    refreshing,      \* the api module's isRefreshing flag
    failedQueue,     \* the api module's failedQueue: the requests waiting in it
    calls,           \* per request of the api instance: where it stands
    tasks,           \* per asynchronous authStore action: where it stands
    srvTokens,       \* the tokens the server has issued and still accepts
    lastRefresh,     \* outcome of the last token refresh ("none": no refresh yet)
    route,           \* the id AlertDetailScreen is open for (0: the alerts list)
    mounted,         \* number of AlertDetailScreen instances mounted so far
    isAcknowledging, \* the mounted AlertDetailScreen's isAcknowledging state
    ackBy            \* per outstanding acknowledge: the instance awaiting it

vars == <<alerts, selectedAlert, isLoading, isRefreshing, error, statusFilter,
          inflight, db, onNewAlert, onEventUpdated, last,
          socket, tenantId, made, open, conn, sendBuffer, rooms, effects,
          reconnectAttempts, backoff, readyState,
          user, isAuthenticated, authIsLoading, authError, accessToken,
          refreshToken, refreshing, failedQueue, calls, tasks, srvTokens,
          lastRefresh, route, mounted, isAcknowledging, ackBy>>

storeVars == <<alerts, selectedAlert, isLoading, isRefreshing, error, statusFilter>>
socketVars == <<onNewAlert, onEventUpdated>>
screenVars == <<route, mounted, isAcknowledging, ackBy>>
managerVars == <<reconnectAttempts, backoff, readyState>>
connVars == <<socket, tenantId, made, open, conn, sendBuffer, rooms, effects,
              managerVars>>
authStoreVars == <<user, isAuthenticated, authIsLoading, authError>>
tokenVars == <<accessToken, refreshToken>>
apiVars == <<refreshing, failedQueue, calls, lastRefresh>>
authVars == <<authStoreVars, tokenVars, apiVars, tasks, srvTokens>>
sessionVars == <<connVars, authVars>>

\* ---------------------------------------------------------------- helpers
RECURSIVE MapSeq(_, _)
\* Array.prototype.map over a sequence
MapSeq(F(_), s) ==
    IF s = <<>> THEN <<>> ELSE <<F(Head(s))>> \o MapSeq(F, Tail(s))

\* Array.prototype.find(a => a.id === id) is truthy
HasId(s, id) == \E i \in 1..Len(s) : s[i].id = id

\* the entry of s with the given id (s holds exactly one)
Entry(s, id) == s[CHOOSE i \in 1..Len(s) : s[i].id = id]

Op(name, id, ret) == [op |-> name, id |-> id, ret |-> ret]

\* ---------------------------------------------------------------- REST
\* a request the store has issued and whose promise has not yet settled
NoResp == [st |-> "none", detail |-> "null", body |-> <<>>]
OkResp(body) == [st |-> "ok", detail |-> "null", body |-> body]
\* a rejected promise; detail is error.response?.data?.detail ("null": none)
ErrResp(detail) == [st |-> "err", detail |-> detail, body |-> <<>>]
Details == {"null", "detail"}

Request(kind, id, status) ==
    [kind |-> kind, id |-> id, status |-> status, resp |-> NoResp]

\* the sequence s without its i-th element
Remove(s, i) == SubSeq(s, 1, i - 1) \o SubSeq(s, i + 1, Len(s))

Pending(kind) == \E i \in 1..Len(inflight) : inflight[i].kind = kind

\* GET /events?status=: the backend's events, filtered by the status parameter
GetEvents(status) ==
    SelectSeq(db, LAMBDA a : status = "ALL" \/ a.status = status)

\* PATCH /events/{id} {status: 'ACK'}: the stored events after the update
PatchAck(id) ==
    MapSeq(LAMBDA a : IF a.id = id THEN [a EXCEPT !.status = "ACK"] ELSE a, db)

\* ---------------------------------------------------------------- backend
\* a sensor raises an event: stored with the next id, newest first
ServerRaise(t) ==
    /\ Len(db) < MaxId
    /\ db' = <<[id |-> Len(db) + 1, type |-> t, status |-> "NEW"]>> \o db
    /\ UNCHANGED <<storeVars, socketVars, screenVars, sessionVars, inflight, last>>

\* another operator acknowledges an event
ServerAckElsewhere(id) ==
    /\ HasId(db, id)
    /\ Entry(db, id).status = "NEW"
    /\ db' = PatchAck(id)
    /\ UNCHANGED <<storeVars, socketVars, screenVars, sessionVars, inflight, last>>

\* the backend answers the i-th outstanding request
ServerAnswer(i) ==
    /\ i \in 1..Len(inflight)
    /\ inflight[i].resp.st = "none"
    /\ LET r == inflight[i] IN
       \/ /\ r.kind \in {"fetchAlerts", "refreshAlerts"}
          /\ inflight' = [inflight EXCEPT ![i].resp = OkResp(GetEvents(r.status))]
          /\ UNCHANGED db
       \/ /\ r.kind = "fetchAlertDetail"
          /\ inflight' = [inflight EXCEPT ![i].resp =
                 IF HasId(db, r.id) THEN OkResp(<<Entry(db, r.id)>>)
                 ELSE ErrResp("detail")]
          /\ UNCHANGED db
       \/ /\ r.kind = "acknowledgeAlert"
          /\ HasId(db, r.id)
          /\ db' = PatchAck(r.id)
          /\ inflight' = [inflight EXCEPT ![i].resp = OkResp(<<Entry(db', r.id)>>)]
    /\ UNCHANGED <<storeVars, socketVars, screenVars, sessionVars, last>>

\* the i-th outstanding request fails: the backend rejects it (detail in the
\* body) or it times out or the network drops it (no body)
ServerReject(i, detail) ==
    /\ i \in 1..Len(inflight)
    /\ inflight[i].resp.st = "none"
    /\ inflight' = [inflight EXCEPT ![i].resp = ErrResp(detail)]
    /\ UNCHANGED <<storeVars, socketVars, screenVars, sessionVars, db, last>>

\* the auth store and the api module as created, with empty token storage
AuthInit ==
    /\ user = NoUser
    /\ isAuthenticated = FALSE
    /\ authIsLoading = TRUE
    /\ authError = "null"
    /\ accessToken = 0
    /\ refreshToken = 0
    /\ refreshing = FALSE
    /\ failedQueue = <<>>
    /\ calls = [o \in Owners |-> IdleCall]
    /\ tasks = [a \in AuthOps |-> IdleTask]
    /\ srvTokens = [issued |-> 0, access |-> {}, refresh |-> {}]
    /\ lastRefresh = "none"
    /\ route = 0
    /\ mounted = 0
    /\ isAcknowledging = FALSE
    /\ ackBy = <<>>

\* new SocketService(): no handle, no tenant; nothing created yet
SessionInit ==
    /\ socket = 0
    /\ tenantId = "null"
    /\ made = 0
    /\ open = {}
    /\ conn = {}
    /\ sendBuffer = [h \in Handles |-> <<>>]
    /\ rooms = [h \in Handles |-> <<>>]
    /\ effects = <<>>
    /\ reconnectAttempts = 0
    /\ backoff = [h \in Handles |-> 0]
    /\ readyState = [h \in Handles |-> "opening"]
    /\ AuthInit

Init ==
    /\ alerts = <<>>
    /\ selectedAlert = Null
    /\ isLoading = FALSE
    /\ isRefreshing = FALSE
    /\ error = "null"
    /\ statusFilter = "ALL"
    /\ inflight = <<>>
    /\ db = <<>>
    /\ onNewAlert = NoHandler
    /\ onEventUpdated = NoHandler
    /\ last = Op("init", 0, "void")
    /\ SessionInit

\* ---------------------------------------------------------------- store
\* variant: the fetched list is stored without the type filter
FallAlerts_Unfiltered(s) == s

\* Only FALL and PRE_FALL events are shown
FallAlerts(s) == SelectSeq(s, LAMBDA a : a.type = "FALL" \/ a.type = "PRE_FALL")

\* error.response?.data?.detail || fallback
Message(resp, fallback) == IF resp.detail # "null" THEN resp.detail ELSE fallback

\* fetchAlerts up to its await: set({isLoading, error}), read statusFilter,
\* call alertsApi.getAlerts(params)
FetchAlertsIssue(filter) ==
    /\ isLoading' = TRUE
    /\ error' = "null"
    /\ inflight' = Append(inflight, Request("fetchAlerts", 0, filter))

fetchAlerts ==
    /\ FetchAlertsIssue(statusFilter)
    /\ UNCHANGED last
    /\ UNCHANGED <<alerts, selectedAlert, isRefreshing, statusFilter, db, socketVars, screenVars, sessionVars>>

\* variant: entries the response does not hold stay in the collection
fetchAlertsDone_KeepHeld(i) ==
    /\ i \in 1..Len(inflight)
    /\ inflight[i].kind = "fetchAlerts"
    /\ inflight[i].resp.st # "none"
    /\ LET resp == inflight[i].resp IN
       IF resp.st = "ok"
       THEN /\ alerts' = FallAlerts(resp.body)
                            \o SelectSeq(alerts, LAMBDA a : ~HasId(resp.body, a.id))
            /\ isLoading' = FALSE
            /\ error' = error
            /\ last' = Op("fetchAlerts", 0, "ok")
       ELSE /\ error' = Message(resp, "Erreur de chargement")
            /\ isLoading' = FALSE
            /\ alerts' = alerts
            /\ last' = Op("fetchAlerts", 0, "error")
    /\ inflight' = Remove(inflight, i)
    /\ UNCHANGED <<selectedAlert, isRefreshing, statusFilter, db, socketVars, screenVars, sessionVars>>

\* variant: a failed fetch empties the collection
fetchAlertsDone_ClearOnError(i) ==
    /\ i \in 1..Len(inflight)
    /\ inflight[i].kind = "fetchAlerts"
    /\ inflight[i].resp.st # "none"
    /\ LET resp == inflight[i].resp IN
       IF resp.st = "ok"
       THEN /\ alerts' = FallAlerts(resp.body)
            /\ isLoading' = FALSE
            /\ error' = error
            /\ last' = Op("fetchAlerts", 0, "ok")
       ELSE /\ error' = Message(resp, "Erreur de chargement")
            /\ isLoading' = FALSE
            /\ alerts' = <<>>
            /\ last' = Op("fetchAlerts", 0, "error")
    /\ inflight' = Remove(inflight, i)
    /\ UNCHANGED <<selectedAlert, isRefreshing, statusFilter, db, socketVars, screenVars, sessionVars>>

\* fetchAlerts after its await
fetchAlertsDone(i) ==
    /\ i \in 1..Len(inflight)
    /\ inflight[i].kind = "fetchAlerts"
    /\ inflight[i].resp.st # "none"
    /\ LET resp == inflight[i].resp IN
       IF resp.st = "ok"
       THEN /\ alerts' = FallAlerts(resp.body)
            /\ isLoading' = FALSE
            /\ error' = error
            /\ last' = Op("fetchAlerts", 0, "ok")
       ELSE /\ error' = Message(resp, "Erreur de chargement")
            /\ isLoading' = FALSE
            /\ alerts' = alerts
            /\ last' = Op("fetchAlerts", 0, "error")
    /\ inflight' = Remove(inflight, i)
    /\ UNCHANGED <<selectedAlert, isRefreshing, statusFilter, db, socketVars, screenVars, sessionVars>>

\* refreshAlerts up to its await
refreshAlerts ==
    /\ isRefreshing' = TRUE
    /\ inflight' = Append(inflight, Request("refreshAlerts", 0, statusFilter))
    /\ UNCHANGED last
    /\ UNCHANGED <<alerts, selectedAlert, isLoading, error, statusFilter, db, socketVars, screenVars, sessionVars>>

\* refreshAlerts after its await
refreshAlertsDone(i) ==
    /\ i \in 1..Len(inflight)
    /\ inflight[i].kind = "refreshAlerts"
    /\ inflight[i].resp.st # "none"
    /\ LET resp == inflight[i].resp IN
       IF resp.st = "ok"
       THEN /\ alerts' = FallAlerts(resp.body)
            /\ isRefreshing' = FALSE
            /\ last' = Op("refreshAlerts", 0, "ok")
       ELSE /\ isRefreshing' = FALSE
            /\ alerts' = alerts
            /\ last' = Op("refreshAlerts", 0, "error")
    /\ inflight' = Remove(inflight, i)
    /\ UNCHANGED <<selectedAlert, isLoading, error, statusFilter, db, socketVars, screenVars, sessionVars>>

\* fetchAlertDetail up to its await: set({isLoading, error}), call
\* alertsApi.getAlert(id)
FetchAlertDetailIssue(id) ==
    /\ isLoading' = TRUE
    /\ error' = "null"
    /\ inflight' = Append(inflight, Request("fetchAlertDetail", id, "ALL"))

\* fetchAlertDetail up to its await
fetchAlertDetail(id) ==
    /\ FetchAlertDetailIssue(id)
    /\ UNCHANGED last
    /\ UNCHANGED <<alerts, selectedAlert, isRefreshing, statusFilter, db, socketVars, screenVars, sessionVars>>

\* fetchAlertDetail after its await
fetchAlertDetailDone(i) ==
    /\ i \in 1..Len(inflight)
    /\ inflight[i].kind = "fetchAlertDetail"
    /\ inflight[i].resp.st # "none"
    /\ LET resp == inflight[i].resp IN
       IF resp.st = "ok"
       THEN /\ selectedAlert' = resp.body[1]
            /\ isLoading' = FALSE
            /\ error' = error
            /\ last' = Op("fetchAlertDetail", 0, "ok")
       ELSE /\ error' = Message(resp, "Erreur de chargement")
            /\ isLoading' = FALSE
            /\ selectedAlert' = selectedAlert
            /\ last' = Op("fetchAlertDetail", 0, "error")
    /\ inflight' = Remove(inflight, i)
    /\ UNCHANGED <<alerts, isRefreshing, statusFilter, db, socketVars, screenVars, sessionVars>>

\* variant: the status is set to ACK before the backend has answered
acknowledgeAlert_Optimistic(id) ==
    /\ isLoading' = TRUE
    /\ error' = "null"
    /\ alerts' = MapSeq(LAMBDA a : IF a.id = id THEN [a EXCEPT !.status = "ACK"] ELSE a,
                        alerts)
    /\ inflight' = Append(inflight, Request("acknowledgeAlert", id, "ALL"))
    /\ UNCHANGED last
    /\ UNCHANGED <<selectedAlert, isRefreshing, statusFilter, db, socketVars, screenVars, sessionVars>>

\* acknowledgeAlert up to its await: set({isLoading, error}), call
\* alertsApi.acknowledgeAlert(id)
AcknowledgeAlertIssue(id) ==
    /\ isLoading' = TRUE
    /\ error' = "null"
    /\ inflight' = Append(inflight, Request("acknowledgeAlert", id, "ALL"))

\* acknowledgeAlert up to its await
acknowledgeAlert(id) ==
    /\ AcknowledgeAlertIssue(id)
    /\ UNCHANGED last
    /\ UNCHANGED <<alerts, selectedAlert, isRefreshing, statusFilter, db, socketVars, screenVars, sessionVars>>

\* variant: only the status of the response is laid over the held entry
AckAlerts_MergeStatus(s, id, updatedAlert) ==
    MapSeq(LAMBDA a : IF a.id = id THEN [a EXCEPT !.status = updatedAlert.status]
                      ELSE a, s)

\* variant: the acknowledged alert is not written back to the list
AckAlerts_ListUntouched(s, id, updatedAlert) == s

\* alerts.map((a) => a.id === id ? updatedAlert : a)
AckAlerts(s, id, updatedAlert) ==
    MapSeq(LAMBDA a : IF a.id = id THEN updatedAlert ELSE a, s)

\* acknowledgeAlert after its await, the store's part; ret is the promise's
\* value
AcknowledgeAlertSettle(i) ==
    /\ i \in 1..Len(inflight)
    /\ inflight[i].kind = "acknowledgeAlert"
    /\ inflight[i].resp.st # "none"
    /\ LET resp == inflight[i].resp
           id == inflight[i].id
       IN
       IF resp.st = "ok"
       THEN LET updatedAlert == resp.body[1] IN
            /\ alerts' = AckAlerts(alerts, id, updatedAlert)
            /\ selectedAlert' = updatedAlert
            /\ isLoading' = FALSE
            /\ error' = error
            /\ last' = Op("acknowledgeAlert", id, "true")
       ELSE /\ error' = Message(resp, "Erreur d'acquittement")
            /\ isLoading' = FALSE
            /\ alerts' = alerts
            /\ selectedAlert' = selectedAlert
            /\ last' = Op("acknowledgeAlert", id, "false")
    /\ inflight' = Remove(inflight, i)

\* acknowledgeAlert after its await
acknowledgeAlertDone(i) ==
    /\ AcknowledgeAlertSettle(i)
    /\ UNCHANGED <<isRefreshing, statusFilter, db, socketVars, screenVars, sessionVars>>

\* variant: an admitted alert goes to the end of the collection
AddNewAlert_AtEnd(s, alert) ==
    IF alert.type # "FALL" /\ alert.type # "PRE_FALL" THEN s
    ELSE IF HasId(s, alert.id) THEN s
    ELSE s \o <<alert>>

\* variant: no check for an entry with the same id
AddNewAlert_NoExistsCheck(s, alert) ==
    IF alert.type # "FALL" /\ alert.type # "PRE_FALL" THEN s
    ELSE <<alert>> \o s

\* addNewAlert(alert): the new collection
AddNewAlert(s, alert) ==
    IF alert.type # "FALL" /\ alert.type # "PRE_FALL" THEN s
    ELSE IF HasId(s, alert.id) THEN s
    ELSE <<alert>> \o s

addNewAlert(alert) ==
    /\ Len(AddNewAlert(alerts, alert)) <= MaxAlerts
    /\ alerts' = AddNewAlert(alerts, alert)
    /\ last' = Op("addNewAlert", 0,
                  IF alert.type # "FALL" /\ alert.type # "PRE_FALL" THEN "ignored"
                  ELSE IF HasId(alerts, alert.id) THEN "duplicate"
                  ELSE "added")
    /\ UNCHANGED <<selectedAlert, isLoading, isRefreshing, error, statusFilter,
                   inflight, db, socketVars, screenVars, sessionVars>>

\* {...a, ...update}: the fields of update laid over those of a
Merge(a, update) ==
    [id |-> IF "id" \in DOMAIN update THEN update.id ELSE a.id,
     type |-> IF "type" \in DOMAIN update THEN update.type ELSE a.type,
     status |-> IF "status" \in DOMAIN update THEN update.status ELSE a.status]

\* variant: the spread is the other way round, {...update, ...a}, and the
\* fields the entry holds win
UpdateAlerts_HeldWins(s, id, update) == s

\* variant: the update is merged onto every entry, whatever its id
UpdateAlerts_EveryEntry(s, id, update) ==
    MapSeq(LAMBDA a : Merge(a, update), s)

\* alerts.map((a) => a.id === id ? {...a, ...update} : a)
UpdateAlerts(s, id, update) ==
    MapSeq(LAMBDA a : IF a.id = id THEN Merge(a, update) ELSE a, s)

\* variant: the selected alert is left as it is
UpdateSelected_ListOnly(sel, id, update) == sel

\* selectedAlert?.id === id ? {...selectedAlert, ...update} : selectedAlert
UpdateSelected(sel, id, update) ==
    IF sel # Null /\ sel.id = id THEN Merge(sel, update) ELSE sel

updateAlertInList(id, update) ==
    /\ alerts' = UpdateAlerts(alerts, id, update)
    /\ selectedAlert' = UpdateSelected(selectedAlert, id, update)
    /\ last' = Op("updateAlertInList", 0,
                  IF HasId(alerts, id) \/ selectedAlert.id = id THEN "merged"
                  ELSE "missing")
    /\ UNCHANGED <<isLoading, isRefreshing, error, statusFilter, inflight, db, socketVars, screenVars, sessionVars>>

\* setStatusFilter(status): set the filter, then start fetchAlerts
setStatusFilter(status) ==
    /\ statusFilter' = status
    /\ FetchAlertsIssue(status)
    /\ last' = Op("setStatusFilter", 0, "void")
    /\ UNCHANGED <<alerts, selectedAlert, isRefreshing, db, socketVars, screenVars, sessionVars>>

clearError ==
    /\ error' = "null"
    /\ last' = Op("clearError", 0, "void")
    /\ UNCHANGED <<alerts, selectedAlert, isLoading, isRefreshing, statusFilter,
                   inflight, db, socketVars, screenVars, sessionVars>>

\* ---------------------------------------------------------------- socket
\* AuthGuard effect body with isAuthenticated true: both slots are set
RegisterHandlers ==
    /\ onNewAlert' = StoreHandler
    /\ onEventUpdated' = StoreHandler
    /\ last' = Op("setHandlers", 0, "void")
    /\ UNCHANGED <<storeVars, inflight, db, screenVars, sessionVars>>

\* AuthGuard effect cleanup: both slots are set to null
UnregisterHandlers ==
    /\ onNewAlert' = NoHandler
    /\ onEventUpdated' = NoHandler
    /\ last' = Op("setHandlers", 0, "null")
    /\ UNCHANGED <<storeVars, inflight, db, screenVars, sessionVars>>

\* the event payloads of new_event and new_radar_event: an event as it was
\* raised, or no event at all (data.event undefined)
PushedEvents == [id : Ids, type : EventType, status : {"NEW"}] \cup {Null}

\* the update payloads of event_updated that follow AlertUpdate
StatusPatches == {<<>>} \cup {[status |-> s] : s \in EventStatus}

\* every update payload {...a, ...update} accepts (update is typed any)
Patches ==
    StatusPatches
    \cup {[type |-> t] : t \in EventType}
    \cup {[id |-> i] : i \in Ids}
    \cup {[type |-> "PRESENCE", status |-> s] : s \in EventStatus}

\* variant: a callback is only stored while the slot is empty
setOnNewAlert_KeepFirst(callback) ==
    /\ onNewAlert' = IF onNewAlert = NoHandler THEN callback ELSE onNewAlert
    /\ last' = Op("setOnNewAlert", callback, "void")
    /\ UNCHANGED <<onEventUpdated, storeVars, inflight, db, screenVars, sessionVars>>

\* SocketService.setOnNewAlert(callback)
setOnNewAlert(callback) ==
    /\ onNewAlert' = callback
    /\ last' = Op("setOnNewAlert", callback, "void")
    /\ UNCHANGED <<onEventUpdated, storeVars, inflight, db, screenVars, sessionVars>>

\* SocketService.setOnEventUpdated(callback)
setOnEventUpdated(callback) ==
    /\ onEventUpdated' = callback
    /\ last' = Op("setOnEventUpdated", callback, "void")
    /\ UNCHANGED <<onNewAlert, storeVars, inflight, db, screenVars, sessionVars>>

\* this.onNewAlert(data.event): the AuthGuard's callback calls addNewAlert,
\* another caller's callback leaves the store alone
InvokeOnNewAlert(name, event) ==
    IF onNewAlert = StoreHandler
    THEN addNewAlert(event)
    ELSE /\ last' = Op(name, 0, "other handler")
         /\ UNCHANGED <<storeVars, inflight, db, socketVars, screenVars, sessionVars>>

\* this.onEventUpdated(data): the AuthGuard's callback calls
\* updateAlertInList(data.event_id, data.update)
InvokeOnEventUpdated(event_id, update) ==
    IF onEventUpdated = StoreHandler
    THEN updateAlertInList(event_id, update)
    ELSE /\ last' = Op("event_updated", 0, "other handler")
         /\ UNCHANGED <<storeVars, inflight, db, socketVars, screenVars, sessionVars>>

\* variant: only FALL passes the listener's type test
OnNewEvent_FallOnly(name, event) ==
    IF onNewAlert # NoHandler /\ event # Null /\ event.type = "FALL"
    THEN InvokeOnNewAlert(name, event)
    ELSE /\ last' = Op(name, 0, IF onNewAlert = NoHandler THEN "no handler"
                                ELSE IF event = Null THEN "no event"
                                ELSE "wrong type")
         /\ UNCHANGED <<storeVars, inflight, db, socketVars, screenVars, sessionVars>>

\* the 'new_event' and 'new_radar_event' listeners (name is the message name)
OnNewEvent(name, event) ==
    IF /\ onNewAlert # NoHandler
       /\ event # Null
       /\ (event.type = "FALL" \/ event.type = "PRE_FALL")
    THEN InvokeOnNewAlert(name, event)
    ELSE /\ last' = Op(name, 0, IF onNewAlert = NoHandler THEN "no handler"
                                ELSE IF event = Null THEN "no event"
                                ELSE "wrong type")
         /\ UNCHANGED <<storeVars, inflight, db, socketVars, screenVars, sessionVars>>

\* variant: the listener passes on only updates of held FALL and PRE_FALL alerts
OnEventUpdated_FallOnly(event_id, update) ==
    IF /\ onEventUpdated # NoHandler
       /\ \A k \in 1..Len(alerts) :
              alerts[k].id = event_id => alerts[k].type \in {"FALL", "PRE_FALL"}
    THEN InvokeOnEventUpdated(event_id, update)
    ELSE /\ last' = Op("event_updated", 0, IF onEventUpdated = NoHandler
                                           THEN "no handler" ELSE "wrong type")
         /\ UNCHANGED <<storeVars, inflight, db, socketVars, screenVars, sessionVars>>

\* the 'event_updated' listener
OnEventUpdated(event_id, update) ==
    IF onEventUpdated # NoHandler
    THEN InvokeOnEventUpdated(event_id, update)
    ELSE /\ last' = Op("event_updated", 0, "no handler")
         /\ UNCHANGED <<storeVars, inflight, db, socketVars, screenVars, sessionVars>>

\* ------------------------------------------------------ socket connection
\* the SocketService fields and what the transport library and the server
\* hold for its handles, as one value
Conn ==
    [socket |-> socket, tenantId |-> tenantId, made |-> made, open |-> open,
     conn |-> conn, sendBuffer |-> sendBuffer, rooms |-> rooms, effects |-> effects]

\* the primed connection variables are the fields of c
SetConn(c) ==
    /\ socket' = c.socket
    /\ tenantId' = c.tenantId
    /\ made' = c.made
    /\ open' = c.open
    /\ conn' = c.conn
    /\ sendBuffer' = c.sendBuffer
    /\ rooms' = c.rooms
    /\ effects' = c.effects

\* the payload of join_tenant and leave_tenant
Packet(name, tenant) == [name |-> name, tenant |-> tenant]

\* one entry of effects
Effect(e, h, p, sent) ==
    [e |-> e, h |-> h, name |-> p.name, tenant |-> p.tenant, sent |-> sent]

\* the server receives packet p from handle h: join_tenant enters the room,
\* leave_tenant leaves it
Deliver(r, h, p) ==
    IF p.name = "join_tenant"
    THEN [r EXCEPT ![h] = Append(@, p.tenant)]
    ELSE [r EXCEPT ![h] = SelectSeq(@, LAMBDA t : t # p.tenant)]

RECURSIVE DeliverAll(_, _, _)
\* the server receives the packets ps from handle h, in order
DeliverAll(r, h, ps) ==
    IF ps = <<>> THEN r ELSE DeliverAll(Deliver(r, h, Head(ps)), h, Tail(ps))

\* socket.emit(name, payload) on handle h: sent when h is connected, kept in
\* the handle's send buffer otherwise
Emit(c, h, p) ==
    IF h \in c.conn
    THEN [c EXCEPT !.rooms = Deliver(c.rooms, h, p),
                   !.effects = Append(@, Effect("emit", h, p, TRUE))]
    ELSE [c EXCEPT !.sendBuffer[h] = Append(@, p),
                   !.effects = Append(@, Effect("emit", h, p, FALSE))]

\* socket.disconnect() on handle h: the transport is closed for good and the
\* server drops the handle from its rooms
Close(c, h) ==
    [c EXCEPT !.open = @ \ {h},
              !.conn = @ \ {h},
              !.rooms[h] = <<>>,
              !.effects = Append(@, Effect("disconnect", h, Packet("null", "null"),
                                           h \in c.conn))]

\* io(API_BASE_URL, {...}): a new handle, not yet connected
Io(c) ==
    LET h == c.made + 1 IN
    [c EXCEPT !.socket = h,
              !.made = h,
              !.open = @ \cup {h},
              !.effects = Append(@, Effect("io", h, Packet("null", c.tenantId), FALSE))]

\* SocketService.disconnect()
Disconnect(c) ==
    LET c1 == IF c.socket # 0
              THEN LET c2 == IF c.tenantId # "null"
                             THEN Emit(c, c.socket, Packet("leave_tenant", c.tenantId))
                             ELSE c
                   IN [Close(c2, c.socket) EXCEPT !.socket = 0]
              ELSE c
    IN [c1 EXCEPT !.tenantId = "null"]

\* variant: the new handle is created without tearing the old one down
Connect_NoTeardown(c, t) ==
    IF c.socket # 0 /\ c.socket \in c.conn /\ c.tenantId = t
    THEN c
    ELSE Io([c EXCEPT !.tenantId = t])

\* variant: no test for a connected handle of the same tenant
Connect_NoGuard(c, t) ==
    Io([Disconnect(c) EXCEPT !.tenantId = t])

\* SocketService.connect(tenantId, token); the token goes to io() as auth
Connect(c, t) ==
    IF c.socket # 0 /\ c.socket \in c.conn /\ c.tenantId = t
    THEN c
    ELSE Io([Disconnect(c) EXCEPT !.tenantId = t])

connect(t) ==
    /\ LET c == Connect([Conn EXCEPT !.effects = <<>>], t) IN
       /\ c.made <= MaxHandles
       /\ SetConn(c)
       /\ last' = Op("connect", 0, IF c.effects = <<>> THEN "no-op" ELSE "created")
    /\ UNCHANGED <<managerVars, authVars, storeVars, socketVars, screenVars, inflight, db>>

disconnect ==
    /\ SetConn(Disconnect([Conn EXCEPT !.effects = <<>>]))
    /\ last' = Op("disconnect", 0, "void")
    /\ UNCHANGED <<managerVars, authVars, storeVars, socketVars, screenVars, inflight, db>>

\* SocketService.isConnected()
isConnected == socket # 0 /\ socket \in conn

\* variant: the 'connect' listener resets reconnectAttempts and emits nothing
OnConnect_NoJoin(h) ==
    /\ h \in open \ conn
    /\ readyState[h] = "opening"
    /\ readyState' = [readyState EXCEPT ![h] = "open"]
    /\ backoff' = [backoff EXCEPT ![h] = 0]
    /\ reconnectAttempts' = 0
    /\ SetConn([Conn EXCEPT !.effects = <<>>,
                            !.conn = @ \cup {h},
                            !.rooms = DeliverAll(rooms, h, sendBuffer[h]),
                            !.sendBuffer[h] = <<>>])
    /\ UNCHANGED <<authVars, storeVars, socketVars, screenVars, inflight, db, last>>

\* the transport of handle h is established (first connection or reconnection):
\* the library sends the handle's buffered packets and starts counting
\* reconnection attempts anew, then the 'connect' listener resets
\* reconnectAttempts and emits join_tenant on this.socket for this.tenantId
OnConnect(h) ==
    /\ h \in open \ conn
    /\ readyState[h] = "opening"
    /\ readyState' = [readyState EXCEPT ![h] = "open"]
    /\ backoff' = [backoff EXCEPT ![h] = 0]
    /\ reconnectAttempts' = 0
    /\ LET c1 == [Conn EXCEPT !.effects = <<>>,
                              !.conn = @ \cup {h},
                              !.rooms = DeliverAll(rooms, h, sendBuffer[h]),
                              !.sendBuffer[h] = <<>>]
           c2 == IF c1.tenantId # "null" /\ c1.socket # 0
                 THEN Emit(c1, c1.socket, Packet("join_tenant", c1.tenantId))
                 ELSE c1
       IN SetConn(c2)
    /\ UNCHANGED <<authVars, storeVars, socketVars, screenVars, inflight, db, last>>

\* variant: the library is not given reconnectionAttempts and never gives up
OnConnectError_NoLimit(h) ==
    /\ h \in open \ conn
    /\ readyState[h] = "opening"
    /\ reconnectAttempts' = reconnectAttempts + 1
    /\ backoff' = [backoff EXCEPT ![h] = @ + 1]
    /\ UNCHANGED readyState

\* an attempt to open the transport of handle h fails: the 'connect_error'
\* listener counts it, then the library starts the next reconnection attempt
\* unless it has made reconnectionAttempts of them, in which case it gives up
OnConnectError(h) ==
    /\ h \in open \ conn
    /\ readyState[h] = "opening"
    /\ reconnectAttempts' = reconnectAttempts + 1
    /\ IF backoff[h] >= maxReconnectAttempts
       THEN /\ readyState' = [readyState EXCEPT ![h] = "closed"]
            /\ backoff' = [backoff EXCEPT ![h] = 0]
       ELSE /\ backoff' = [backoff EXCEPT ![h] = @ + 1]
            /\ UNCHANGED readyState

\* the 'connect_error' event of handle h
connect_error(h) ==
    /\ OnConnectError(h)
    /\ effects' = <<>>
    /\ UNCHANGED <<socket, tenantId, made, open, conn, sendBuffer, rooms>>
    /\ UNCHANGED <<authVars, storeVars, socketVars, screenVars, inflight, db, last>>

\* the transport of handle h drops; the 'disconnect' listener only logs, the
\* library keeps the handle and starts its first reconnection attempt
OnDisconnect(h) ==
    /\ h \in conn
    /\ readyState' = [readyState EXCEPT ![h] = "opening"]
    /\ backoff' = [backoff EXCEPT ![h] = 1]
    /\ UNCHANGED reconnectAttempts
    /\ conn' = conn \ {h}
    /\ rooms' = [rooms EXCEPT ![h] = <<>>]
    /\ effects' = <<>>
    /\ UNCHANGED <<socket, tenantId, made, open, sendBuffer>>
    /\ UNCHANGED <<authVars, storeVars, socketVars, screenVars, inflight, db, last>>

\* ---------------------------------------------------------------- api
\* how a request of the api instance ends for its caller: fulfilled (with the
\* user of GET /auth/me or the tokens of POST /auth/login) or rejected
Out(st, detail, usr, g) == [st |-> st, detail |-> detail, usr |-> usr, g |-> g]
ErrOut(detail) == Out("err", detail, NoUser, 0)

\* the request an auth store action is awaiting
Awaits(a) ==
    IF tasks[a].pc = "awaitLogin" THEN "login"
    ELSE IF tasks[a].pc = "awaitMe" THEN "me"
    ELSE "none"

\* the alert store's promises for the requests of the owners S settle with out
InflightSettled(S, out) ==
    [i \in 1..Len(inflight) |->
        IF inflight[i].kind \in S /\ inflight[i].resp.st = "none"
        THEN [inflight[i] EXCEPT !.resp =
                 IF out.st = "ok" THEN OkResp(GetEvents(inflight[i].status))
                 ELSE ErrResp(out.detail)]
        ELSE inflight[i]]

\* the auth store's promises for the requests of the owners S settle with out
TasksSettled(S, out) ==
    [a \in AuthOps |->
        IF Awaits(a) \in S /\ tasks[a].res = "null"
        THEN [tasks[a] EXCEPT !.res = out.st, !.detail = out.detail,
                              !.usr = out.usr, !.g = out.g]
        ELSE tasks[a]]

\* the server issues the next pair of tokens
Issue(t) ==
    [issued |-> t.issued + 1,
     access |-> t.access \cup {t.issued + 1},
     refresh |-> t.refresh \cup {t.issued + 1}]

\* a request waits to be sent: the alert store has called alertsApi, or the
\* request was handed to api() (again)
Prepared(o) ==
    \/ calls[o].pc = "prepare"
    \/ /\ o \in StoreOwners
       /\ calls[o].pc = "idle"
       /\ \E i \in 1..Len(inflight) :
              inflight[i].kind = o /\ inflight[i].resp.st = "none"

\* the request interceptor: the stored access token goes into the header and
\* the request is sent
RequestInterceptor(o) ==
    /\ Prepared(o)
    /\ calls' = [calls EXCEPT ![o].pc = "sent", ![o].tk = accessToken]
    /\ UNCHANGED <<refreshing, failedQueue, lastRefresh, tokenVars, authStoreVars,
                   tasks, srvTokens>>
    /\ UNCHANGED <<storeVars, socketVars, screenVars, connVars, inflight, db, last>>

\* the caller's promise settles: response interceptor's (response) => response
\* or Promise.reject(error)
Settle(o, out) ==
    /\ calls' = [calls EXCEPT ![o] = IdleCall]
    /\ inflight' = InflightSettled({o}, out)
    /\ tasks' = TasksSettled({o}, out)

\* 2xx for a request other than login: the server accepts the token
Respond200(o, u) ==
    /\ calls[o].pc = "sent"
    /\ o # "login"
    /\ calls[o].tk \in srvTokens.access
    /\ Settle(o, Out("ok", "null", IF o = "me" THEN u ELSE NoUser, 0))
    /\ UNCHANGED <<refreshing, failedQueue, lastRefresh, tokenVars, authStoreVars,
                   srvTokens>>
    /\ UNCHANGED <<storeVars, socketVars, screenVars, connVars, db, last>>

\* 2xx for POST /auth/login: the server issues tokens
LoginOk ==
    /\ calls["login"].pc = "sent"
    /\ srvTokens.issued < MaxTokens
    /\ srvTokens' = Issue(srvTokens)
    /\ Settle("login", Out("ok", "null", NoUser, srvTokens.issued + 1))
    /\ UNCHANGED <<refreshing, failedQueue, lastRefresh, tokenVars, authStoreVars>>
    /\ UNCHANGED <<storeVars, socketVars, screenVars, connVars, db, last>>

\* a failure other than 401 (4xx, 5xx, timeout, no network): the response
\* interceptor passes it on
RespondError(o, d) ==
    /\ calls[o].pc = "sent"
    /\ Settle(o, ErrOut(d))
    /\ UNCHANGED <<refreshing, failedQueue, lastRefresh, tokenVars, authStoreVars,
                   srvTokens>>
    /\ UNCHANGED <<storeVars, socketVars, screenVars, connVars, db, last>>

\* variant: a 401 starts a refresh whether or not one is in progress
OnUnauthorized_NoQueue(o, d) ==
    IF ~calls[o].retry
    THEN /\ calls' = [calls EXCEPT ![o].pc = "getRefreshToken", ![o].retry = TRUE]
         /\ refreshing' = TRUE
         /\ UNCHANGED <<failedQueue, inflight, tasks>>
    ELSE /\ Settle(o, ErrOut(d))
         /\ UNCHANGED <<refreshing, failedQueue>>

\* the response interceptor's error handler up to its first await, for a 401
OnUnauthorized(o, d) ==
    IF ~calls[o].retry
    THEN IF refreshing
         THEN /\ failedQueue' = Append(failedQueue, o)
              /\ calls' = [calls EXCEPT ![o].pc = "queued"]
              /\ UNCHANGED <<refreshing, inflight, tasks>>
         ELSE /\ calls' = [calls EXCEPT ![o].pc = "getRefreshToken", ![o].retry = TRUE]
              /\ refreshing' = TRUE
              /\ UNCHANGED <<failedQueue, inflight, tasks>>
    ELSE /\ Settle(o, ErrOut(d))
         /\ UNCHANGED <<refreshing, failedQueue>>

\* 401: the server does not accept the token (or, for login, the credentials)
Respond401(o, d) ==
    /\ calls[o].pc = "sent"
    /\ o = "login" \/ calls[o].tk \notin srvTokens.access
    /\ OnUnauthorized(o, d)
    /\ UNCHANGED <<lastRefresh, tokenVars, authStoreVars, srvTokens>>
    /\ UNCHANGED <<storeVars, socketVars, screenVars, connVars, db, last>>

\* catch (refreshError) up to its await: processQueue(refreshError, null)
\* rejects and drops every queued request; the request that ran the refresh
\* (o) goes on to clearTokens
ProcessQueue(o, d) ==
    LET queued == {failedQueue[k] : k \in 1..Len(failedQueue)} IN
    /\ failedQueue' = <<>>
    /\ calls' = [c \in Owners |->
                    IF c = o THEN [calls[o] EXCEPT !.pc = "clearAccess", !.detail = d]
                    ELSE IF c \in queued THEN IdleCall
                    ELSE calls[c]]
    /\ inflight' = InflightSettled(queued, ErrOut(d))
    /\ tasks' = TasksSettled(queued, ErrOut(d))

\* after await tokenManager.getRefreshToken()
RefreshRead(o) ==
    /\ calls[o].pc = "getRefreshToken"
    /\ IF refreshToken = 0
       THEN /\ ProcessQueue(o, "null")
            /\ lastRefresh' = "failed"
       ELSE /\ calls' = [calls EXCEPT ![o].pc = "refreshPost", ![o].g = refreshToken]
            /\ UNCHANGED <<failedQueue, inflight, tasks, lastRefresh>>
    /\ UNCHANGED <<refreshing, tokenVars, authStoreVars, srvTokens>>
    /\ UNCHANGED <<storeVars, socketVars, screenVars, connVars, db, last>>

\* POST /auth/refresh succeeds: the server accepts the refresh token
RefreshOk(o) ==
    /\ calls[o].pc = "refreshPost"
    /\ calls[o].g \in srvTokens.refresh
    /\ srvTokens.issued < MaxTokens
    /\ srvTokens' = Issue(srvTokens)
    /\ calls' = [calls EXCEPT ![o].pc = "setAccess", ![o].g = srvTokens.issued + 1]
    /\ UNCHANGED <<refreshing, failedQueue, lastRefresh, tokenVars, authStoreVars,
                   tasks, inflight>>
    /\ UNCHANGED <<storeVars, socketVars, screenVars, connVars, db, last>>

\* POST /auth/refresh fails (refresh token not accepted, timeout, no network)
RefreshFail(o, d) ==
    /\ calls[o].pc = "refreshPost"
    /\ ProcessQueue(o, d)
    /\ lastRefresh' = "failed"
    /\ UNCHANGED <<refreshing, tokenVars, authStoreVars, srvTokens>>
    /\ UNCHANGED <<storeVars, socketVars, screenVars, connVars, db, last>>

\* tokenManager.setTokens, first setItemAsync
SetAccess(o) ==
    /\ calls[o].pc = "setAccess"
    /\ accessToken' = calls[o].g
    /\ calls' = [calls EXCEPT ![o].pc = "setRefresh"]
    /\ UNCHANGED <<refreshToken, refreshing, failedQueue, lastRefresh, authStoreVars,
                   tasks, srvTokens, inflight>>
    /\ UNCHANGED <<storeVars, socketVars, screenVars, connVars, db, last>>

\* tokenManager.setTokens, second setItemAsync; then processQueue(null, token),
\* the original request is handed to api() again, finally isRefreshing = false
SetRefresh(o) ==
    /\ calls[o].pc = "setRefresh"
    /\ refreshToken' = calls[o].g
    /\ LET queued == {failedQueue[k] : k \in 1..Len(failedQueue)} IN
       calls' = [c \in Owners |->
                    IF c = o \/ c \in queued
                    THEN [calls[c] EXCEPT !.pc = "prepare", !.g = 0]
                    ELSE calls[c]]
    /\ failedQueue' = <<>>
    /\ refreshing' = FALSE
    /\ lastRefresh' = "ok"
    /\ UNCHANGED <<accessToken, authStoreVars, tasks, srvTokens, inflight>>
    /\ UNCHANGED <<storeVars, socketVars, screenVars, connVars, db, last>>

\* tokenManager.clearTokens in the catch, first deleteItemAsync
ClearAccess(o) ==
    /\ calls[o].pc = "clearAccess"
    /\ accessToken' = 0
    /\ calls' = [calls EXCEPT ![o].pc = "clearRefresh"]
    /\ UNCHANGED <<refreshToken, refreshing, failedQueue, lastRefresh, authStoreVars,
                   tasks, srvTokens, inflight>>
    /\ UNCHANGED <<storeVars, socketVars, screenVars, connVars, db, last>>

\* tokenManager.clearTokens in the catch, second deleteItemAsync; then
\* Promise.reject(refreshError), finally isRefreshing = false
ClearRefresh(o) ==
    /\ calls[o].pc = "clearRefresh"
    /\ refreshToken' = 0
    /\ Settle(o, ErrOut(calls[o].detail))
    /\ refreshing' = FALSE
    /\ UNCHANGED <<accessToken, failedQueue, lastRefresh, authStoreVars, srvTokens>>
    /\ UNCHANGED <<storeVars, socketVars, screenVars, connVars, db, last>>

\* the server stops accepting an access token (it expires)
ServerExpire(g) ==
    /\ g \in srvTokens.access
    /\ srvTokens' = [srvTokens EXCEPT !.access = @ \ {g}]
    /\ UNCHANGED <<authStoreVars, tokenVars, apiVars, tasks>>
    /\ UNCHANGED <<storeVars, socketVars, screenVars, connVars, inflight, db, last>>

\* the requests of the owners O are sent and answered; GET /auth/me returns
\* a user of U, a failure carries a detail of D
ApiCalls(O, U, D) ==
    \/ \E o \in O : RequestInterceptor(o)
    \/ \E o \in O, u \in U : Respond200(o, u)
    \/ \E o \in O, d \in D : RespondError(o, d)
    \/ \E o \in O, d \in D : Respond401(o, d)

\* the token refresh a 401 starts
Refresh(O, D) ==
    \/ \E o \in O : RefreshRead(o)
    \/ \E o \in O : RefreshOk(o)
    \/ \E o \in O, d \in D : RefreshFail(o, d)
    \/ \E o \in O : SetAccess(o)
    \/ \E o \in O : SetRefresh(o)
    \/ \E o \in O : ClearAccess(o)
    \/ \E o \in O : ClearRefresh(o)

\* ---------------------------------------------------------------- auth store
\* error.response?.data?.detail || 'Erreur de connexion'
LoginMessage(detail) == IF detail # "null" THEN detail ELSE "Erreur de connexion"

\* login up to its first await: set({isLoading, error}), POST /auth/login
login ==
    /\ tasks["login"].pc = "idle"
    /\ calls["login"].pc = "idle"
    /\ authIsLoading' = TRUE
    /\ authError' = "null"
    /\ tasks' = [tasks EXCEPT !["login"] = [IdleTask EXCEPT !.pc = "awaitLogin"]]
    /\ calls' = [calls EXCEPT !["login"] = [IdleCall EXCEPT !.pc = "prepare"]]
    /\ UNCHANGED <<user, isAuthenticated, tokenVars, refreshing, failedQueue,
                   lastRefresh, srvTokens>>
    /\ UNCHANGED <<storeVars, socketVars, screenVars, connVars, inflight, db, last>>

\* authApi.login after its POST: tokenManager.setTokens, first setItemAsync
loginSetAccess ==
    /\ tasks["login"].pc = "awaitLogin"
    /\ tasks["login"].res = "ok"
    /\ accessToken' = tasks["login"].g
    /\ tasks' = [tasks EXCEPT !["login"].pc = "setRefresh"]
    /\ UNCHANGED <<refreshToken, authStoreVars, apiVars, srvTokens>>
    /\ UNCHANGED <<storeVars, socketVars, screenVars, connVars, inflight, db, last>>

\* tokenManager.setTokens, second setItemAsync; authApi.login returns and
\* login calls authApi.getCurrentUser()
loginSetRefresh ==
    /\ tasks["login"].pc = "setRefresh"
    /\ calls["me"].pc = "idle"
    /\ refreshToken' = tasks["login"].g
    /\ tasks' = [tasks EXCEPT !["login"].pc = "awaitMe", !["login"].res = "null"]
    /\ calls' = [calls EXCEPT !["me"] = [IdleCall EXCEPT !.pc = "prepare"]]
    /\ UNCHANGED <<accessToken, authStoreVars, refreshing, failedQueue, lastRefresh,
                   srvTokens>>
    /\ UNCHANGED <<storeVars, socketVars, screenVars, connVars, inflight, db, last>>

\* login after GET /auth/me: await tokenManager.getAccessToken()
loginGotUser ==
    /\ tasks["login"].pc = "awaitMe"
    /\ tasks["login"].res = "ok"
    /\ tasks' = [tasks EXCEPT !["login"].pc = "getToken"]
    /\ UNCHANGED <<authStoreVars, tokenVars, apiVars, srvTokens>>
    /\ UNCHANGED <<storeVars, socketVars, screenVars, connVars, inflight, db, last>>

\* login after getAccessToken: connect the socket, set the session
loginDone ==
    /\ tasks["login"].pc = "getToken"
    /\ LET u == tasks["login"].usr
           c == IF u.tenant_id # "null" /\ accessToken # 0
                THEN Connect([Conn EXCEPT !.effects = <<>>], u.tenant_id)
                ELSE Conn
       IN /\ c.made <= MaxHandles
          /\ SetConn(c)
          /\ user' = u
    /\ isAuthenticated' = TRUE
    /\ authIsLoading' = FALSE
    /\ tasks' = [tasks EXCEPT !["login"] = IdleTask]
    /\ last' = Op("login", 0, "true")
    /\ UNCHANGED <<authError, tokenVars, apiVars, srvTokens>>
    /\ UNCHANGED <<managerVars, storeVars, socketVars, screenVars, inflight, db>>

\* login's catch: one of its two requests was rejected
loginFailed ==
    /\ tasks["login"].pc \in {"awaitLogin", "awaitMe"}
    /\ tasks["login"].res = "err"
    /\ authError' = LoginMessage(tasks["login"].detail)
    /\ authIsLoading' = FALSE
    /\ tasks' = [tasks EXCEPT !["login"] = IdleTask]
    /\ last' = Op("login", 0, "false")
    /\ UNCHANGED <<user, isAuthenticated, tokenVars, apiVars, srvTokens>>
    /\ UNCHANGED <<storeVars, socketVars, screenVars, connVars, inflight, db>>

\* variant: logout leaves the socket as it is
logout_KeepSocket ==
    /\ tasks["logout"].pc = "idle"
    /\ tasks' = [tasks EXCEPT !["logout"] = [IdleTask EXCEPT !.pc = "clearAccess"]]
    /\ UNCHANGED <<authStoreVars, tokenVars, apiVars, srvTokens>>
    /\ UNCHANGED <<storeVars, socketVars, screenVars, connVars, inflight, db, last>>

\* logout up to its await: socketService.disconnect(), authApi.logout()
logout ==
    /\ tasks["logout"].pc = "idle"
    /\ SetConn(Disconnect([Conn EXCEPT !.effects = <<>>]))
    /\ tasks' = [tasks EXCEPT !["logout"] = [IdleTask EXCEPT !.pc = "clearAccess"]]
    /\ UNCHANGED <<authStoreVars, tokenVars, apiVars, srvTokens>>
    /\ UNCHANGED <<managerVars, storeVars, socketVars, screenVars, inflight, db, last>>

\* tokenManager.clearTokens in authApi.logout, first deleteItemAsync
logoutClearAccess ==
    /\ tasks["logout"].pc = "clearAccess"
    /\ accessToken' = 0
    /\ tasks' = [tasks EXCEPT !["logout"].pc = "clearRefresh"]
    /\ UNCHANGED <<refreshToken, authStoreVars, apiVars, srvTokens>>
    /\ UNCHANGED <<storeVars, socketVars, screenVars, connVars, inflight, db, last>>

\* second deleteItemAsync; logout after its await: set({user: null, ...})
logoutDone ==
    /\ tasks["logout"].pc = "clearRefresh"
    /\ refreshToken' = 0
    /\ user' = NoUser
    /\ isAuthenticated' = FALSE
    /\ authError' = "null"
    /\ tasks' = [tasks EXCEPT !["logout"] = IdleTask]
    /\ last' = Op("logout", 0, "void")
    /\ UNCHANGED <<accessToken, authIsLoading, apiVars, srvTokens>>
    /\ UNCHANGED <<storeVars, socketVars, screenVars, connVars, inflight, db>>

\* checkAuth up to its first await: set({isLoading}), getAccessToken()
checkAuth ==
    /\ tasks["checkAuth"].pc = "idle"
    /\ authIsLoading' = TRUE
    /\ tasks' = [tasks EXCEPT !["checkAuth"] = [IdleTask EXCEPT !.pc = "getToken"]]
    /\ UNCHANGED <<user, isAuthenticated, authError, tokenVars, apiVars, srvTokens>>
    /\ UNCHANGED <<storeVars, socketVars, screenVars, connVars, inflight, db, last>>

\* checkAuth after getAccessToken: no token, or GET /auth/me
checkAuthToken ==
    /\ tasks["checkAuth"].pc = "getToken"
    /\ IF accessToken = 0
       THEN /\ authIsLoading' = FALSE
            /\ isAuthenticated' = FALSE
            /\ tasks' = [tasks EXCEPT !["checkAuth"] = IdleTask]
            /\ last' = Op("checkAuth", 0, "false")
            /\ UNCHANGED calls
       ELSE /\ calls["me"].pc = "idle"
            /\ calls' = [calls EXCEPT !["me"] = [IdleCall EXCEPT !.pc = "prepare"]]
            /\ tasks' = [tasks EXCEPT !["checkAuth"].pc = "awaitMe",
                                      !["checkAuth"].tok = accessToken]
            /\ UNCHANGED <<authIsLoading, isAuthenticated, last>>
    /\ UNCHANGED <<user, authError, tokenVars, refreshing, failedQueue, lastRefresh,
                   srvTokens>>
    /\ UNCHANGED <<storeVars, socketVars, screenVars, connVars, inflight, db>>

\* checkAuth after GET /auth/me: connect the socket, set the session
checkAuthDone ==
    /\ tasks["checkAuth"].pc = "awaitMe"
    /\ tasks["checkAuth"].res = "ok"
    /\ LET u == tasks["checkAuth"].usr
           c == IF u.tenant_id # "null"
                THEN Connect([Conn EXCEPT !.effects = <<>>], u.tenant_id)
                ELSE Conn
       IN /\ c.made <= MaxHandles
          /\ SetConn(c)
          /\ user' = u
    /\ isAuthenticated' = TRUE
    /\ authIsLoading' = FALSE
    /\ tasks' = [tasks EXCEPT !["checkAuth"] = IdleTask]
    /\ last' = Op("checkAuth", 0, "true")
    /\ UNCHANGED <<authError, tokenVars, apiVars, srvTokens>>
    /\ UNCHANGED <<managerVars, storeVars, socketVars, screenVars, inflight, db>>

\* checkAuth's catch: tokenManager.clearTokens, first deleteItemAsync
checkAuthClearAccess ==
    /\ tasks["checkAuth"].pc = "awaitMe"
    /\ tasks["checkAuth"].res = "err"
    /\ accessToken' = 0
    /\ tasks' = [tasks EXCEPT !["checkAuth"].pc = "clearRefresh"]
    /\ UNCHANGED <<refreshToken, authStoreVars, apiVars, srvTokens>>
    /\ UNCHANGED <<storeVars, socketVars, screenVars, connVars, inflight, db, last>>

\* second deleteItemAsync; then set({user: null, isAuthenticated: false, ...})
checkAuthFailed ==
    /\ tasks["checkAuth"].pc = "clearRefresh"
    /\ refreshToken' = 0
    /\ user' = NoUser
    /\ isAuthenticated' = FALSE
    /\ authIsLoading' = FALSE
    /\ tasks' = [tasks EXCEPT !["checkAuth"] = IdleTask]
    /\ last' = Op("checkAuth", 0, "false")
    /\ UNCHANGED <<accessToken, authError, apiVars, srvTokens>>
    /\ UNCHANGED <<storeVars, socketVars, screenVars, connVars, inflight, db>>

\* the screen shown: the spinner while isLoading, else the alerts screens
\* for an authenticated session and the login screen otherwise
OnAlertsScreen == isAuthenticated /\ ~authIsLoading
OnLoginScreen == ~isAuthenticated /\ ~authIsLoading

\* ---------------------------------------------------------------- alerts screen
\* alerts.filter((a) => a.status === 'NEW').length
newAlertsCount(list) == Len(SelectSeq(list, LAMBDA a : a.status = "NEW"))

\* variant: the entries that are not NEW are taken out of the collection itself
AlertsScreen_FilterInPlace ==
    /\ alerts' = SelectSeq(alerts, LAMBDA a : a.status = "NEW")
    /\ last' = Op("newAlertsCount", Len(alerts'), "void")
    /\ UNCHANGED <<selectedAlert, isLoading, isRefreshing, error, statusFilter,
                   inflight, db, socketVars, screenVars, sessionVars>>

\* AlertsScreen renders: newAlertsCount is derived from the store's alerts
AlertsScreen ==
    /\ last' = Op("newAlertsCount", newAlertsCount(alerts), "void")
    /\ UNCHANGED <<storeVars, inflight, db, socketVars, screenVars, sessionVars>>

\* ---------------------------------------------------------------- detail screen
\* variant: every signed-in user may acknowledge
canAcknowledge_AnyRole(userRole) == userRole # "null"

\* canAcknowledge(user?.role); "null" stands for undefined
canAcknowledge(userRole) ==
    IF userRole # "null"
    THEN userRole \in {"SUPER_ADMIN", "TENANT_ADMIN", "SUPERVISOR", "OPERATOR"}
    ELSE FALSE

\* the route /alerts/id is pushed (an alert card is pressed): an
\* AlertDetailScreen is mounted for id and its effect calls fetchAlertDetail(id)
openAlert(id) ==
    /\ route = 0
    /\ mounted < MaxMounts
    /\ route' = id
    /\ mounted' = mounted + 1
    /\ isAcknowledging' = FALSE
    /\ FetchAlertDetailIssue(id)
    /\ UNCHANGED <<ackBy, last, alerts, selectedAlert, isRefreshing, statusFilter>>
    /\ UNCHANGED <<db, socketVars, sessionVars>>

\* the header's back button of the stack: the AlertDetailScreen is unmounted,
\* the store keeps selectedAlert
goBack ==
    /\ route # 0
    /\ route' = 0
    /\ isAcknowledging' = FALSE
    /\ UNCHANGED <<mounted, ackBy, storeVars, inflight, db, last, socketVars, sessionVars>>

\* the screen is past its loading view and shows the acknowledge button,
\* enabled
AcknowledgeEnabled ==
    /\ route # 0
    /\ ~(isLoading \/ selectedAlert = Null)
    /\ canAcknowledge(user.role)
    /\ ~(selectedAlert.status # "NEW")
    /\ ~isAcknowledging

\* the acknowledge button is pressed and the dialog confirmed:
\* setIsAcknowledging(true), then acknowledgeAlert(id) up to its await
handleAcknowledge ==
    /\ AcknowledgeEnabled
    /\ isAcknowledging' = TRUE
    /\ ackBy' = Append(ackBy, mounted)
    /\ AcknowledgeAlertIssue(route)
    /\ UNCHANGED <<route, mounted, last, alerts, selectedAlert, isRefreshing, statusFilter>>
    /\ UNCHANGED <<db, socketVars, sessionVars>>

\* the number of acknowledge requests among the first i outstanding requests
AckRank(i) == Cardinality({k \in 1..i : inflight[k].kind = "acknowledgeAlert"})

\* acknowledgeAlert settles and handleAcknowledge goes on after its await:
\* setIsAcknowledging(false) on the instance that awaited it
handleAcknowledgeDone(i) ==
    /\ AcknowledgeAlertSettle(i)
    /\ ackBy' = Remove(ackBy, AckRank(i))
    /\ isAcknowledging' = IF route # 0 /\ ackBy[AckRank(i)] = mounted THEN FALSE
                          ELSE isAcknowledging
    /\ UNCHANGED <<route, mounted, isRefreshing, statusFilter, db, socketVars, sessionVars>>

\* ---------------------------------------------------------------- system
\* fewer than n requests are outstanding
Below(n) == Len(inflight) < n

\* the backend answers or fails an outstanding request
Answers ==
    \/ \E i \in 1..Len(inflight) : ServerAnswer(i)
    \/ \E i \in 1..Len(inflight), d \in Details : ServerReject(i, d)

\* the continuations of the store's asynchronous actions
Continuations ==
    \/ \E i \in 1..Len(inflight) : fetchAlertsDone(i)
    \/ \E i \in 1..Len(inflight) : refreshAlertsDone(i)
    \/ \E i \in 1..Len(inflight) : fetchAlertDetailDone(i)
    \/ \E i \in 1..Len(inflight) : acknowledgeAlertDone(i)

\* the socket bridge with the update payloads drawn from P
Push(P) ==
    \/ RegisterHandlers
    \/ UnregisterHandlers
    \/ \E n \in {"new_event", "new_radar_event"}, e \in PushedEvents : OnNewEvent(n, e)
    \/ \E id \in Ids, u \in P : OnEventUpdated(id, u)

\* REST: the screens' calls, one request outstanding at a time, against a
\* backend whose events change under the client
Next ==
    \/ \E t \in EventType : ServerRaise(t)
    \/ \E id \in Ids : ServerAckElsewhere(id)
    \/ Answers
    \/ Below(MaxInFlight) /\ fetchAlerts
    \/ Below(MaxInFlight) /\ refreshAlerts
    \/ Below(MaxInFlight) /\ \E id \in Ids : fetchAlertDetail(id)
    \/ Below(MaxInFlight) /\ \E id \in Ids : acknowledgeAlert(id)
    \/ Below(MaxInFlight) /\ \E f \in STATUS_FILTERS : setStatusFilter(f)
    \/ Continuations
    \/ clearError

Spec == Init /\ [][Next]_vars

\* Socket bridge: pushed events and updates of any shape reach the store; the
\* detail screen loads the selected alert
NextPush ==
    \/ \E i \in 1..Len(inflight) : ServerAnswer(i)
    \/ Below(MaxInFlight) /\ \E id \in Ids : fetchAlertDetail(id)
    \/ \E i \in 1..Len(inflight) : fetchAlertDetailDone(i)
    \/ Push(Patches)

\* the backend holds one event when the app starts
InitPush ==
    /\ alerts = <<>>
    /\ selectedAlert = Null
    /\ isLoading = FALSE
    /\ isRefreshing = FALSE
    /\ error = "null"
    /\ statusFilter = "ALL"
    /\ inflight = <<>>
    /\ db = <<[id |-> 1, type |-> "FALL", status |-> "NEW"]>>
    /\ onNewAlert = NoHandler
    /\ onEventUpdated = NoHandler
    /\ last = Op("init", 0, "void")
    /\ SessionInit

SpecPush == InitPush /\ [][NextPush]_vars

\* Racing REST calls: several requests outstanding, answered and completed
\* in any order
NextRace ==
    \/ \E t \in EventType : ServerRaise(t)
    \/ \E i \in 1..Len(inflight) : ServerAnswer(i)
    \/ Below(MaxRacing) /\ fetchAlerts
    \/ Below(MaxRacing) /\ \E id \in Ids : acknowledgeAlert(id)
    \/ Below(MaxRacing) /\ \E f \in STATUS_FILTERS : setStatusFilter(f)
    \/ \E i \in 1..Len(inflight) : fetchAlertsDone(i)
    \/ \E i \in 1..Len(inflight) : acknowledgeAlertDone(i)

SpecRace == Init /\ [][NextRace]_vars

\* Connection: the session's calls to the socket service and the transport's
\* events, in any order
NextSocket ==
    \/ \E t \in Tenants : connect(t)
    \/ disconnect
    \/ \E h \in Handles : OnConnect(h)
    \/ \E h \in Handles : OnDisconnect(h)

SpecSocket == Init /\ [][NextSocket]_vars

\* Reconnection: one tenant's session connects and disconnects while the
\* transport is established, drops and fails to open
NextReconnect ==
    \/ connect("tenantA")
    \/ disconnect
    \/ \E h \in Handles : OnConnect(h)
    \/ \E h \in Handles : OnDisconnect(h)
    \/ \E h \in Handles : connect_error(h)

SpecReconnect == Init /\ [][NextReconnect]_vars

\* Rehydration: the alerts screen fetches, the socket connects, drops and
\* reconnects, and the backend raises events while the socket is down
NextRehydrate ==
    \/ Below(MaxInFlight) /\ fetchAlerts
    \/ \E i \in 1..Len(inflight) : ServerAnswer(i)
    \/ \E i \in 1..Len(inflight) : fetchAlertsDone(i)
    \/ connect("tenantA")
    \/ \E h \in Handles : OnConnect(h)
    \/ \E h \in Handles : OnDisconnect(h)
    \/ ~isConnected /\ \E t \in EventType : ServerRaise(t)

SpecRehydrate == Init /\ [][NextRehydrate]_vars

\* Alerts screen: the list is fetched and rendered while the backend's events
\* are raised and acknowledged
NextScreen ==
    \/ \E t \in EventType : ServerRaise(t)
    \/ \E id \in Ids : ServerAckElsewhere(id)
    \/ Below(MaxInFlight) /\ fetchAlerts
    \/ \E i \in 1..Len(inflight) : ServerAnswer(i)
    \/ \E i \in 1..Len(inflight) : fetchAlertsDone(i)
    \/ AlertsScreen

SpecScreen == Init /\ [][NextScreen]_vars

\* Fetch and push: the backend raises events and pushes them over the socket
\* while the alerts screen's fetch is outstanding, answered and completed
NextInterleave ==
    \/ \E t \in EventType : ServerRaise(t)
    \/ RegisterHandlers
    \/ \E n \in {"new_event", "new_radar_event"}, k \in 1..Len(db) : OnNewEvent(n, db[k])
    \/ Below(MaxInFlight) /\ fetchAlerts
    \/ \E i \in 1..Len(inflight) : ServerAnswer(i)
    \/ \E i \in 1..Len(inflight) : fetchAlertsDone(i)

SpecInterleave == Init /\ [][NextInterleave]_vars

\* Acknowledge over pushed state: the list is fetched, updates arrive over
\* the socket, and alerts are acknowledged
NextAck ==
    \/ Below(MaxInFlight) /\ fetchAlerts
    \/ \E i \in 1..Len(inflight) : fetchAlertsDone(i)
    \/ RegisterHandlers
    \/ \E id \in Ids, u \in Patches : OnEventUpdated(id, u)
    \/ Below(MaxInFlight) /\ \E id \in Ids : acknowledgeAlert(id)
    \/ \E i \in 1..Len(inflight) : ServerAnswer(i)
    \/ \E i \in 1..Len(inflight) : acknowledgeAlertDone(i)

SpecAck == InitPush /\ [][NextAck]_vars

\* Handler slots: callbacks are registered and removed while pushed events
\* and updates arrive
NextHandlers ==
    \/ \E cb \in Callbacks \cup {NoHandler} : setOnNewAlert(cb)
    \/ \E cb \in Callbacks \cup {NoHandler} : setOnEventUpdated(cb)
    \/ \E n \in {"new_event", "new_radar_event"}, e \in PushedEvents : OnNewEvent(n, e)
    \/ \E id \in Ids, u \in Patches : OnEventUpdated(id, u)

SpecHandlers == Init /\ [][NextHandlers]_vars

\* the app starts with the tokens an earlier run left in storage, if any
InitAuth ==
    /\ alerts = <<>>
    /\ selectedAlert = Null
    /\ isLoading = FALSE
    /\ isRefreshing = FALSE
    /\ error = "null"
    /\ statusFilter = "ALL"
    /\ inflight = <<>>
    /\ db = <<>>
    /\ onNewAlert = NoHandler
    /\ onEventUpdated = NoHandler
    /\ last = Op("init", 0, "void")
    /\ socket = 0
    /\ tenantId = "null"
    /\ made = 0
    /\ open = {}
    /\ conn = {}
    /\ sendBuffer = [h \in Handles |-> <<>>]
    /\ rooms = [h \in Handles |-> <<>>]
    /\ effects = <<>>
    /\ reconnectAttempts = 0
    /\ backoff = [h \in Handles |-> 0]
    /\ readyState = [h \in Handles |-> "opening"]
    /\ user = NoUser
    /\ isAuthenticated = FALSE
    /\ authIsLoading = TRUE
    /\ authError = "null"
    /\ refreshing = FALSE
    /\ failedQueue = <<>>
    /\ calls = [o \in Owners |-> IdleCall]
    /\ tasks = [a \in AuthOps |-> IdleTask]
    /\ lastRefresh = "none"
    /\ route = 0
    /\ mounted = 0
    /\ isAcknowledging = FALSE
    /\ ackBy = <<>>
    /\ \E g \in {0, 1} :
          /\ accessToken = g
          /\ refreshToken = g
          /\ srvTokens = [issued |-> g, access |-> 1..g, refresh |-> 1..g]

\* the account the server returns for GET /auth/me
Operator == [role |-> "OPERATOR", tenant_id |-> "tenantA"]

\* Token refresh: the app checks the stored tokens on start, the alerts screen
\* fetches, and the api instance refreshes the tokens the server no longer
\* accepts
NextRefresh ==
    \/ tasks = [a \in AuthOps |-> IdleTask] /\ authIsLoading /\ checkAuth
    \/ checkAuthToken
    \/ checkAuthDone
    \/ checkAuthClearAccess
    \/ checkAuthFailed
    \/ OnAlertsScreen /\ ~Pending("fetchAlerts") /\ fetchAlerts
    \/ OnAlertsScreen /\ ~Pending("refreshAlerts") /\ refreshAlerts
    \/ ApiCalls(StoreOwners \cup {"me"}, {Operator}, Details)
    \/ Refresh(StoreOwners \cup {"me"}, Details)
    \/ \E g \in 1..MaxTokens : ServerExpire(g)
    \/ \E i \in 1..Len(inflight) : fetchAlertsDone(i)
    \/ \E i \in 1..Len(inflight) : refreshAlertsDone(i)

SpecRefresh == InitAuth /\ [][NextRefresh]_vars

\* the accounts the server returns for GET /auth/me, one for each role
Staff == {[role |-> r, tenant_id |-> "tenantA"] : r \in Roles}

\* Detail screen: the app checks the stored tokens on start, the user opens
\* alerts, acknowledges them where the screen allows it, and logs out
NextDetail ==
    \/ tasks = [a \in AuthOps |-> IdleTask] /\ authIsLoading /\ checkAuth
    \/ checkAuthToken
    \/ checkAuthDone
    \/ checkAuthClearAccess
    \/ checkAuthFailed
    \/ RequestInterceptor("me")
    \/ \E u \in Staff : Respond200("me", u)
    \/ RespondError("me", "null")
    \/ OnAlertsScreen /\ route = 0 /\ logout
    \/ logoutClearAccess
    \/ logoutDone
    \/ \E t \in EventType : ServerRaise(t)
    \/ \E i \in 1..Len(inflight) : ServerAnswer(i)
    \/ \E i \in 1..Len(inflight) : ServerReject(i, "null")
    \/ OnAlertsScreen /\ Below(MaxRacing) /\ \E id \in Ids : openAlert(id)
    \/ goBack
    \/ \E i \in 1..Len(inflight) : fetchAlertDetailDone(i)
    \/ Below(MaxRacing) /\ handleAcknowledge
    \/ \E i \in 1..Len(inflight) : handleAcknowledgeDone(i)

SpecDetail == InitAuth /\ [][NextDetail]_vars

\* Session: the app checks the stored tokens on start, the user logs in and
\* out, the socket connects, and the alerts screen fetches while the tokens
\* expire and are refreshed
NextSession ==
    \/ tasks = [a \in AuthOps |-> IdleTask] /\ authIsLoading /\ checkAuth
    \/ checkAuthToken
    \/ checkAuthDone
    \/ checkAuthClearAccess
    \/ checkAuthFailed
    \/ OnLoginScreen /\ login
    \/ LoginOk
    \/ loginSetAccess
    \/ loginSetRefresh
    \/ loginGotUser
    \/ loginDone
    \/ loginFailed
    \/ OnAlertsScreen /\ logout
    \/ logoutClearAccess
    \/ logoutDone
    \/ OnAlertsScreen /\ ~Pending("fetchAlerts") /\ fetchAlerts
    \/ ApiCalls({"fetchAlerts", "login", "me"}, {Operator}, {"null"})
    \/ Refresh({"fetchAlerts", "login", "me"}, {"null"})
    \/ \E g \in 1..MaxTokens : ServerExpire(g)
    \/ \E i \in 1..Len(inflight) : fetchAlertsDone(i)
    \/ \E h \in Handles : OnConnect(h)
    \/ db = <<>> /\ ServerRaise("FALL")

SpecSession == InitAuth /\ [][NextSession]_vars

\* ---------------------------------------------------------------- claims
\* the values of a sequence
Range(s) == {s[k] : k \in 1..Len(s)}

InScope(a) == a.type \in {"FALL", "PRE_FALL"}

\* ids pairwise distinct
DistinctIds(s) == \A i, j \in 1..Len(s) : s[i].id = s[j].id => i = j

\* C1: addNewAlert never makes two entries share an id (a collection with
\* pairwise distinct ids has pairwise distinct ids after the call), and a call
\* whose id is already held leaves the collection as it was.
C1_NoDuplicateInsert ==
    [][\A a \in Alert :
          (last'.op = "addNewAlert" /\ addNewAlert(a)) =>
              /\ DistinctIds(alerts) => DistinctIds(alerts')
              /\ HasId(alerts, a.id) => alerts' = alerts]_vars

\* C1 witness: an alert was delivered again while the collection held two
\* entries, and the collection still holds one entry per id.
C1_Witness ==
    /\ last = Op("addNewAlert", 0, "duplicate")
    /\ Len(alerts) = 2
    /\ DistinctIds(alerts)

\* C2: the ids in the alert collection are pairwise distinct in every
\* reachable state.
C2_IdsDistinct == DistinctIds(alerts)

\* C3 as stated: a successful fetchAlerts or refreshAlerts makes the collection
\* exactly the sequence the backend returned.
C3_ReplaceWithResponse ==
    [][\A i \in 1..Len(inflight) :
          (/\ last'.ret = "ok"
           /\ inflight[i].resp.st = "ok"
           /\ fetchAlertsDone(i) \/ refreshAlertsDone(i))
              => alerts' = inflight[i].resp.body]_vars

\* position of the entry with the given id in a sequence with distinct ids
Pos(s, id) == CHOOSE k \in 1..Len(s) : s[k].id = id

\* C3 amended: a successful fetchAlerts or refreshAlerts makes the collection
\* exactly the FALL and PRE_FALL entries of the sequence the backend returned,
\* with the backend's field values and in the backend's order, whatever the
\* collection held before.
C3_ReplaceWithInScopeResponse ==
    [][\A i \in 1..Len(inflight) :
          (/\ last'.ret = "ok"
           /\ inflight[i].resp.st = "ok"
           /\ fetchAlertsDone(i) \/ refreshAlertsDone(i))
              => LET body == inflight[i].resp.body IN
                 /\ Range(alerts') = {a \in Range(body) : InScope(a)}
                 /\ DistinctIds(alerts')
                 /\ \A k, l \in 1..Len(alerts') :
                        k < l => Pos(body, alerts'[k].id) < Pos(body, alerts'[l].id)]_vars

\* C3 witness: a fetch has replaced the collection while the backend held an
\* acknowledged FALL event and an out-of-scope event; only the first is shown.
C3_Witness ==
    /\ last = Op("fetchAlerts", 0, "ok")
    /\ Len(db) = 2
    /\ \E k \in 1..2 : db[k].type = "PRESENCE"
    /\ Len(alerts) = 1
    /\ alerts[1].status = "ACK"
    /\ alerts[1] \in Range(db)

C5_AcknowledgeRoundTrip ==
    [][\A i \in 1..Len(inflight) :
          (/\ inflight[i].kind = "acknowledgeAlert"
           /\ inflight[i].resp.st = "ok"
           /\ inflight[i].resp.body[1].status = "ACK"
           /\ acknowledgeAlertDone(i))
              => LET id == inflight[i].id
                     answer == inflight[i].resp.body[1]
                 IN
                 /\ \A a \in Range(alerts') : a.id = id => a.status = "ACK"
                 /\ selectedAlert'.id = id => selectedAlert'.status = "ACK"
                 /\ last'.ret = "true"
                 /\ AckAlerts(alerts', id, answer) = alerts'
                 /\ answer = selectedAlert']_vars

\* C5 witness: acknowledgeAlert(1) has returned true; the entry and the
\* selected alert with id 1 both show ACK.
C5_Witness ==
    /\ last = Op("acknowledgeAlert", 1, "true")
    /\ HasId(alerts, 1)
    /\ Entry(alerts, 1).status = "ACK"
    /\ selectedAlert.id = 1
    /\ selectedAlert.status = "ACK"

\* C6: neither the start of acknowledgeAlert nor its failure changes the
\* collection or the selected alert; on failure the call returns false and an
\* error message is recorded.
C6_AcknowledgeFailureFrame ==
    [][/\ \A id \in Ids :
             (Len(inflight') > Len(inflight) /\ acknowledgeAlert(id))
                 => /\ alerts' = alerts
                    /\ selectedAlert' = selectedAlert
       /\ \A i \in 1..Len(inflight) :
             (last'.ret = "false" /\ inflight[i].resp.st = "err" /\ acknowledgeAlertDone(i))
                 => /\ alerts' = alerts
                    /\ selectedAlert' = selectedAlert
                    /\ last'.ret = "false"
                    /\ error' # "null"]_vars

\* C6 witness: acknowledgeAlert(1) has failed; the entry with id 1 is still NEW
\* and the fallback message is recorded.
C6_Witness ==
    /\ last = Op("acknowledgeAlert", 1, "false")
    /\ error = "Erreur d'acquittement"
    /\ HasId(alerts, 1)
    /\ Entry(alerts, 1).status = "NEW"
    /\ selectedAlert.id = 1

\* C7: when acknowledgeAlert(id) has returned true, the collection holds id,
\* and the fetch still in flight then completes, leaving none in flight, every
\* collection entry with that id shows ACK.
C7_NoLostAcknowledgement ==
    [][\A i \in 1..Len(inflight) :
          (/\ last.op = "acknowledgeAlert"
           /\ last.ret = "true"
           /\ HasId(alerts, last.id)
           /\ fetchAlertsDone(i)
           /\ inflight' = <<>>)
              => \A a \in Range(alerts') : a.id = last.id => a.status = "ACK"]_vars

\* the list the alerts screen shows: FlatList data={alerts}
Shown == alerts

\* C8: with a status filter other than ALL, no fetch in flight and no error
\* recorded, every alert shown has the filter's status; with ALL the collection
\* is shown as it is.
C8_FilterViewConsistent ==
    /\ (/\ statusFilter # "ALL"
        /\ ~Pending("fetchAlerts")
        /\ ~Pending("refreshAlerts")
        /\ error = "null")
           => \A a \in Range(Shown) : a.status = statusFilter
    /\ statusFilter = "ALL" => Shown = alerts

\* C9: a selected alert and a collection entry with the same id have the same
\* field values.
C9_SelectedConsistent ==
    selectedAlert # Null
        => \A a \in Range(alerts) : a.id = selectedAlert.id => a = selectedAlert

\* C10: updateAlertInList(id, update) with an id held neither in the collection
\* nor by the selected alert leaves the store as it is, the error included.
C10_UpdateMissingIsNoOp ==
    [][\A id \in Ids, u \in Patches :
          (/\ last'.ret = "missing"
           /\ ~HasId(alerts, id)
           /\ selectedAlert.id # id
           /\ updateAlertInList(id, u))
              => UNCHANGED storeVars]_vars

\* C10 witness: an update for an id held nowhere has been applied to a store
\* that holds an alert and a selected alert.
C10_Witness ==
    /\ last = Op("updateAlertInList", 0, "missing")
    /\ alerts # <<>>
    /\ selectedAlert # Null

\* b carries the fields of update and, for every other field, the value of a
MergedOnto(a, update, b) ==
    \A f \in {"id", "type", "status"} :
        b[f] = IF f \in DOMAIN update THEN update[f] ELSE a[f]

\* C11: updateAlertInList(id, update) lays the fields of update over every
\* collection entry with that id and, whether or not the collection holds the
\* id, over the selected alert when its id matches; the other entries, the
\* length and order of the collection and a selected alert with another id
\* stay as they were.
C11_UpdateMerges ==
    [][\A id \in Ids, u \in Patches :
          (last'.op = "updateAlertInList" /\ updateAlertInList(id, u)) =>
              /\ Len(alerts') = Len(alerts)
              /\ \A k \in 1..Len(alerts) :
                     IF alerts[k].id = id
                     THEN MergedOnto(alerts[k], u, alerts'[k])
                     ELSE alerts'[k] = alerts[k]
              /\ IF selectedAlert # Null /\ selectedAlert.id = id
                 THEN MergedOnto(selectedAlert, u, selectedAlert')
                 ELSE selectedAlert' = selectedAlert]_vars

\* C11 witness: an update reached the selected alert although the collection
\* holds no entry with its id, and the collection holds another alert.
C11_Witness ==
    /\ last = Op("updateAlertInList", 0, "merged")
    /\ selectedAlert.id = 1
    /\ selectedAlert.status = "ACK"
    /\ alerts # <<>>
    /\ ~HasId(alerts, 1)

\* number of times the server holds some handle in the room of tenant t
Subscriptions(r, t) ==
    Cardinality({<<h, k>> \in Handles \X (1..MaxHandles + 2) :
                    k <= Len(r[h]) /\ r[h][k] = t})

\* the packets of an effects log that reached the server
Sent(es) == {k \in 1..Len(es) : es[k].e = "emit" /\ es[k].sent}

C13_TenantSwitchOrder ==
    [][/\ \A t \in Tenants :
             (socket # 0 /\ tenantId \notin {"null", t} /\ connect(t)) =>
                 /\ Len(effects') = 3
                 /\ effects'[1] = Effect("emit", socket,
                                         Packet("leave_tenant", tenantId), socket \in conn)
                 /\ effects'[2].e = "disconnect" /\ effects'[2].h = socket
                 /\ effects'[3].e = "io" /\ effects'[3].h = socket'
                 /\ effects'[3].tenant = t
                 /\ socket' # socket
                 /\ tenantId' = t
                 /\ rooms'[socket] = <<>>
                 /\ open' = {socket'}
       /\ Cardinality(open') <= 1]_vars

\* C13 witness: the service switched from tenantA, joined on a connected
\* handle, to tenantB; the leave_tenant reached the server.
C13_Witness ==
    /\ last = Op("connect", 0, "created")
    /\ tenantId = "tenantB"
    /\ Len(effects) = 3
    /\ effects[1].name = "leave_tenant"
    /\ effects[1].tenant = "tenantA"
    /\ effects[1].sent
    /\ open = {socket}

\* C14: when fetchAlerts or refreshAlerts handles a failed or timed-out
\* request, the collection is afterwards what it was just before.
C14_FailedFetchKeepsAlerts ==
    [][\A i \in 1..Len(inflight) :
          (/\ last'.ret = "error"
           /\ inflight[i].resp.st = "err"
           /\ fetchAlertsDone(i) \/ refreshAlertsDone(i))
              => alerts' = alerts]_vars

\* C14 witness: fetchAlerts has failed without a response body while the
\* collection held an alert, and the alert is still there.
C14_Witness ==
    /\ last = Op("fetchAlerts", 0, "error")
    /\ error = "Erreur de chargement"
    /\ alerts # <<>>

\* C15: when fetchAlerts, refreshAlerts or fetchAlertDetail handles a failed
\* request, the error field afterwards holds the detail of the response body
\* when there is one and the fallback message otherwise.
C15_FailedFetchSurfaces ==
    [][\A i \in 1..Len(inflight) :
          (/\ last'.ret = "error"
           /\ inflight[i].resp.st = "err"
           /\ fetchAlertsDone(i) \/ refreshAlertsDone(i) \/ fetchAlertDetailDone(i))
              => error' = IF inflight[i].resp.detail # "null"
                          THEN inflight[i].resp.detail
                          ELSE "Erreur de chargement"]_vars

\* no request of the api instance, no store promise and no auth store action
\* is outstanding
Quiet ==
    /\ \A o \in Owners : calls[o].pc = "idle"
    /\ inflight = <<>>
    /\ \A a \in AuthOps : tasks[a].pc = "idle"

\* C16: once a token refresh has failed and everything it set off has run to
\* its end, the stored tokens are cleared and the session is unauthenticated.
C16_AuthFailureUnauthenticates ==
    (lastRefresh = "failed" /\ ~refreshing /\ Quiet)
        => /\ accessToken = 0
           /\ refreshToken = 0
           /\ ~isAuthenticated

\* the requests that are running a token refresh
Refreshers ==
    {o \in Owners : calls[o].pc \in {"getRefreshToken", "refreshPost", "setAccess",
                                     "setRefresh", "clearAccess", "clearRefresh"}}

C18_RefreshFailureDrainsQueue ==
    [][\A o \in Owners :
          (calls[o].pc = "clearRefresh" /\ ClearRefresh(o)) =>
              /\ failedQueue' = <<>>
              /\ \A c \in Owners : calls'[c].pc # "queued"
              /\ accessToken' = 0
              /\ refreshToken' = 0
              /\ ~refreshing']_vars

\* C20: logout first tears the transport down (leave_tenant for the held
\* tenant, then disconnect) while the stored tokens are still in place, and
\* when logout has completed there is no transport handle, the stored tokens
\* are cleared, user is null and isAuthenticated is false.
C20_LogoutUnauthenticates ==
    [][/\ (tasks["logout"].pc = "idle" /\ logout) =>
             /\ socket' = 0
             /\ open' = {}
             /\ socket # 0 =>
                    /\ Len(effects') = 2
                    /\ effects'[1].name = "leave_tenant"
                    /\ effects'[1].tenant = tenantId
                    /\ effects'[2].e = "disconnect"
             /\ UNCHANGED tokenVars
       /\ (tasks["logout"].pc = "clearRefresh" /\ logoutDone) =>
             /\ socket' = 0
             /\ open' = {}
             /\ accessToken' = 0
             /\ refreshToken' = 0
             /\ user' = NoUser
             /\ ~isAuthenticated']_vars

\* C19: whenever an acknowledge request is issued, the current user's role is
\* one of SUPER_ADMIN, TENANT_ADMIN, SUPERVISOR, OPERATOR; with another role or
\* no user none is issued.
C19_RoleGate ==
    [][(/\ Len(inflight') > Len(inflight)
        /\ inflight'[Len(inflight')].kind = "acknowledgeAlert")
           => user.role \in {"SUPER_ADMIN", "TENANT_ADMIN", "SUPERVISOR", "OPERATOR"}]_vars

\* C19 witness: an OPERATOR has an acknowledge request outstanding for the
\* selected NEW alert.
C19_Witness ==
    /\ Pending("acknowledgeAlert")
    /\ user.role = "OPERATOR"
    /\ selectedAlert.status = "NEW"

\* the callback a message is handed to: the store's callback answers through
\* the store's operation, another caller's callback leaves its mark in last
HandedTo(cb, storeOp) ==
    IF cb = StoreHandler THEN last'.op = storeOp
    ELSE last'.ret = "other handler" /\ UNCHANGED storeVars

\* C21: each message category has one callback slot. A new-alert message that
\* passes the type gate, or an alert-updated message, arriving right after a
\* registration is handed to the callback registered by that registration and
\* to no callback registered before it; after the slot was set to null the
\* message invokes no callback and the alert store stays as it is.
C21_SingleSlot ==
    [][/\ \A n \in {"new_event", "new_radar_event"}, e \in PushedEvents \ {Null} :
            (/\ last.op = "setOnNewAlert"
             /\ InScope(e)
             /\ OnNewEvent(n, e))
            => IF last.id = NoHandler
               THEN last'.ret = "no handler" /\ UNCHANGED storeVars
               ELSE HandedTo(last.id, "addNewAlert")
       /\ \A id \in Ids, u \in Patches :
            (/\ last.op = "setOnEventUpdated"
             /\ OnEventUpdated(id, u))
            => IF last.id = NoHandler
               THEN last'.ret = "no handler" /\ UNCHANGED storeVars
               ELSE HandedTo(last.id, "updateAlertInList")]_vars

\* C21 witness: the new-alert slot was given another callback after it held
\* the store's (whose alert is in the collection), and the message that came
\* next went to the later callback only.
C21_Witness ==
    /\ onNewAlert = OtherHandler
    /\ last = Op("new_event", 0, "other handler")
    /\ alerts # <<>>

\* C23: the library starts at most maxReconnectAttempts reconnection attempts
\* for a handle; it gives up only when the last of them has failed, and from
\* then on the handle stays disconnected, isConnected() is false, and the
\* service keeps its socket and tenantId until connect creates a new handle
\* or disconnect drops this one.
C23_BoundedReconnection ==
    /\ [](\A h \in Handles : backoff[h] <= maxReconnectAttempts)
    /\ [][\A h \in Handles :
            /\ (readyState[h] # "closed" /\ readyState'[h] = "closed")
                   => backoff[h] = maxReconnectAttempts
            /\ (h \in open /\ readyState[h] = "closed")
                   => /\ h \notin conn'
                      /\ (socket = h /\ made' = made /\ socket' # 0)
                             => /\ socket' = h
                                /\ tenantId' = tenantId
                                /\ ~isConnected']_vars

\* C23 witness: the service's handle was connected, dropped, and its five
\* reconnection attempts have failed; the service still holds it.
C23_Witness ==
    /\ socket # 0
    /\ socket \in open
    /\ readyState[socket] = "closed"
    /\ reconnectAttempts = maxReconnectAttempts
    /\ tenantId = "tenantA"
    /\ ~isConnected

\* C22: when the transport of a handle is established again after a drop
\* during which the backend raised an event the collection does not hold, the
\* alert collection is fetched anew: a fetchAlerts request is outstanding
\* once the 'connect' event has been handled.
C22_ReconnectRehydrates ==
    [][\A h \in Handles :
          (/\ backoff[h] > 0
           /\ \E e \in Range(db) : ~HasId(alerts, e.id)
           /\ OnConnect(h))
          => Pending("fetchAlerts")']_vars

FetchApplied(i) ==
    /\ inflight[i].kind = "fetchAlerts"
    /\ inflight[i].resp.st = "ok"
    /\ fetchAlertsDone(i)

\* the store's callback is handed the pushed event e of type FALL or PRE_FALL
\* right after a fetch has completed, none being outstanding
PushApplied(e) ==
    /\ InScope(e)
    /\ last = Op("fetchAlerts", 0, "ok")
    /\ ~Pending("fetchAlerts")
    /\ onNewAlert = StoreHandler
    /\ last'.op = "addNewAlert"
    /\ \E n \in {"new_event", "new_radar_event"} : OnNewEvent(n, e)

\* C26 as stated: of a fetch and a push for id X, the one applied last decides.
\* A fetch completing with a response that lacks X leaves X absent, whatever
\* was pushed while it was outstanding; a push for X applied once the fetch
\* has completed leaves X at the front.
C26_LastAppliedDecides ==
    [][/\ \A i \in 1..Len(inflight), X \in Ids :
            (HasId(alerts, X) /\ FetchApplied(i) /\ ~HasId(inflight[i].resp.body, X))
            => ~HasId(alerts', X)
       /\ \A e \in Range(db) : PushApplied(e) => alerts'[1].id = e.id]_vars

\* C26 amended: a fetch completing with a response that lacks X leaves X
\* absent, whatever was pushed while it was outstanding; a push for X applied
\* once the fetch has completed leaves X in the collection: at the front when
\* the collection did not hold X, and where it was (the collection unchanged)
\* when the fetch's response had already brought X.
C26_LastAppliedDecidesUnlessHeld ==
    [][/\ \A i \in 1..Len(inflight), X \in Ids :
            (HasId(alerts, X) /\ FetchApplied(i) /\ ~HasId(inflight[i].resp.body, X))
            => ~HasId(alerts', X)
       /\ \A e \in Range(db) :
            PushApplied(e) => IF HasId(alerts, e.id) THEN alerts' = alerts
                              ELSE alerts'[1] = e]_vars

\* C26 witness: a push put an alert into the collection while a fetch is
\* outstanding whose response, already produced, does not hold that alert.
C26_Witness ==
    /\ last = Op("addNewAlert", 0, "added")
    /\ \E i \in 1..Len(inflight) :
          /\ inflight[i].kind = "fetchAlerts"
          /\ inflight[i].resp.st = "ok"
          /\ ~HasId(inflight[i].resp.body, alerts[1].id)

\* C27: when the fetches started by two calls of setStatusFilter are
\* outstanding together, the one that completes last, leaving none in flight,
\* is the fetch of the later call: the collection it stores is the response
\* to the request made for the filter now set.
C27_LatestFilterWins ==
    [][\A i \in 1..Len(inflight) :
          (/\ inflight[i].kind = "fetchAlerts"
           /\ inflight[i].resp.st = "ok"
           /\ fetchAlertsDone(i)
           /\ inflight' = <<>>)
          => inflight[i].status = statusFilter]_vars

\* entry a shows update u1: every field u1 carries has u1's value in a
Shows(a, u1) == \A f \in DOMAIN u1 : a[f] = u1[f]

\* C28: updates are applied one after the other as they arrive. When an update
\* u2 for an id is applied right after an update u1, every collection entry
\* with that id that shows u1, and the selected alert if it has that id and
\* shows u1, then has u2's value in each field u2 carries and still u1's value
\* in each field only u1 carries.
C28_UpdatesInArrivalOrder ==
    [][\A id \in Ids, u2 \in Patches :
          (/\ last.op = "updateAlertInList"
           /\ last'.op = "updateAlertInList"
           /\ updateAlertInList(id, u2))
          => \A u1 \in Patches :
                /\ \A k \in 1..Len(alerts) :
                      (alerts[k].id = id /\ Shows(alerts[k], u1))
                      => /\ \A f \in DOMAIN u2 : alerts'[k][f] = u2[f]
                         /\ \A f \in DOMAIN u1 \ DOMAIN u2 : alerts'[k][f] = u1[f]
                /\ (selectedAlert.id = id /\ Shows(selectedAlert, u1))
                      => /\ \A f \in DOMAIN u2 : selectedAlert'[f] = u2[f]
                         /\ \A f \in DOMAIN u1 \ DOMAIN u2 :
                                selectedAlert'[f] = u1[f]]_vars

\* C28 witness: the selected alert, loaded as a new FALL, has both the type
\* one update carried and the status another update carried.
C28_Witness ==
    /\ last = Op("updateAlertInList", 0, "merged")
    /\ selectedAlert = [id |-> 1, type |-> "PRE_FALL", status |-> "ACK"]

\* C29: an event_updated message reaches the registered handler with its
\* event_id and update whatever the type of the alert: with the store's
\* handler registered, updateAlertInList runs and an entry with that id whose
\* type is neither FALL nor PRE_FALL carries the update afterwards.
C29_UpdatesUngated ==
    [][\A id \in Ids, u \in Patches :
          (/\ onEventUpdated = StoreHandler
           /\ last'.op \in {"event_updated", "updateAlertInList"}
           /\ OnEventUpdated(id, u))
          => /\ last'.op = "updateAlertInList"
             /\ \A k \in 1..Len(alerts) :
                   (alerts[k].id = id /\ ~InScope(alerts[k]))
                   => MergedOnto(alerts[k], u, alerts'[k])]_vars

\* C29 witness: with the store's handler registered, an update was merged and
\* the collection holds an entry of another type than FALL and PRE_FALL that
\* is acknowledged.
C29_Witness ==
    /\ last = Op("updateAlertInList", 0, "merged")
    /\ onEventUpdated = StoreHandler
    /\ \E k \in 1..Len(alerts) :
          alerts[k].type = "PRESENCE" /\ alerts[k].status = "ACK"

\* C30: acknowledgeAlert writes nothing ahead of the response: neither its
\* start nor the backend's answer to it changes the collection or the selected
\* alert. When the response is handled, every entry with the id is the
\* response's alert as a whole, whatever the fields of the held entry were,
\* every other entry is as before, and the selected alert is the response's
\* alert.
C30_NotOptimisticWholesale ==
    [][/\ \A id \in Ids :
            (Len(inflight') > Len(inflight) /\ acknowledgeAlert(id))
            => UNCHANGED <<alerts, selectedAlert>>
       /\ \A i \in 1..Len(inflight) :
            (/\ inflight[i].kind = "acknowledgeAlert"
             /\ inflight[i].resp.st = "none"
             /\ ServerAnswer(i))
            => UNCHANGED <<alerts, selectedAlert>>
       /\ \A i \in 1..Len(inflight) :
            (/\ inflight[i].kind = "acknowledgeAlert"
             /\ inflight[i].resp.st = "ok"
             /\ acknowledgeAlertDone(i))
            => /\ Len(alerts') = Len(alerts)
               /\ \A k \in 1..Len(alerts) :
                     alerts'[k] = IF alerts[k].id = inflight[i].id
                                  THEN inflight[i].resp.body[1]
                                  ELSE alerts[k]
               /\ selectedAlert' = inflight[i].resp.body[1]]_vars

\* C30 witness: the backend has acknowledged an alert and its response is
\* about to be handled; the held entry still shows NEW, and its type, changed
\* by a pushed update, is not the one in the response.
C30_Witness ==
    \E i \in 1..Len(inflight), k \in 1..Len(alerts) :
        /\ inflight[i].kind = "acknowledgeAlert"
        /\ inflight[i].resp.st = "ok"
        /\ inflight[i].resp.body[1].status = "ACK"
        /\ alerts[k].id = inflight[i].id
        /\ alerts[k].status = "NEW"
        /\ alerts[k].type # inflight[i].resp.body[1].type

\* C31: a successful acknowledgeAlert(id) leaves the selected-alert slot as it
\* is when the selected alert has another id or the slot is empty.
C31_SelectedFrame ==
    [][\A i \in 1..Len(inflight) :
          (/\ last'.op = "acknowledgeAlert"
           /\ inflight[i].kind = "acknowledgeAlert"
           /\ inflight[i].resp.st = "ok"
           /\ selectedAlert.id # inflight[i].id
           /\ AcknowledgeAlertSettle(i))
              => selectedAlert' = selectedAlert]_vars

\* C32: updateAlertInList(id, update) leaves the id of every collection entry
\* it matches, and of a matched selected alert, equal to id.
C32_IdImmutable ==
    [][\A id \in Ids, u \in Patches :
          (last'.op = "updateAlertInList" /\ updateAlertInList(id, u)) =>
              /\ \A k \in 1..Len(alerts) : alerts[k].id = id => alerts'[k].id = id
              /\ selectedAlert.id = id => selectedAlert'.id = id]_vars

\* C33: every 'connect' event of the transport, the first one of a handle or
\* one after a reconnection, is an event of the handle the service holds and
\* emits exactly one join_tenant, sent on that handle for the tenant of the
\* latest connect() call; the server never holds a subscription on another
\* handle or for a tenant a later connect() or disconnect() has replaced.
C33_JoinOnConnect ==
    /\ [][\A h \in Handles :
             (h \in conn' \ conn) =>
                 /\ h = socket
                 /\ tenantId \in Tenants
                 /\ UNCHANGED <<socket, tenantId>>
                 /\ effects' = <<Effect("emit", h, Packet("join_tenant", tenantId), TRUE)>>
                 /\ rooms'[h] = <<tenantId>>]_vars
    /\ [](\A h \in Handles :
             /\ rooms[h] # <<>> => h = socket /\ rooms[h] = <<tenantId>>
             /\ \A k \in 1..Len(effects) :
                    effects[k].name = "join_tenant"
                        => effects[k].h = socket /\ effects[k].tenant = tenantId)

\* C33 witness: the handle of an earlier connect() was replaced by one for
\* tenantB, whose 'connect' event has just emitted the join_tenant for tenantB.
C33_Witness ==
    /\ made = 2
    /\ socket = 2
    /\ tenantId = "tenantB"
    /\ backoff[2] = 0
    /\ readyState[2] = "open"
    /\ effects = <<Effect("emit", 2, Packet("join_tenant", "tenantB"), TRUE)>>
    /\ rooms = [h \in Handles |-> IF h = 2 THEN <<"tenantB">> ELSE <<>>]

\* C34: in every state where isAuthenticated is false and neither login nor
\* checkAuth is running, the socket service holds no transport handle and no
\* transport is alive.
C34_NoHandleWhenUnauthenticated ==
    (/\ ~isAuthenticated
     /\ tasks["login"] = IdleTask
     /\ tasks["checkAuth"] = IdleTask)
        => socket = 0 /\ open = {} /\ conn = {}

\* C34 witness: logout has completed for a session whose socket was connected;
\* the service holds no handle.
C34_Witness ==
    /\ last = Op("logout", 0, "void")
    /\ ~isAuthenticated
    /\ tasks = [a \in AuthOps |-> IdleTask]
    /\ made >= 1
    /\ readyState[1] = "open"
    /\ socket = 0

\* C35: at most one acknowledge request for the same id is outstanding at any
\* time.
C35_OneAcknowledgeOutstanding ==
    \A i, j \in 1..Len(inflight) :
        (/\ inflight[i].kind = "acknowledgeAlert"
         /\ inflight[j].kind = "acknowledgeAlert"
         /\ inflight[i].id = inflight[j].id)
            => i = j

\* C36: in every reachable state every alert in the collection has type FALL
\* or PRE_FALL.
C36_CollectionInScope ==
    \A k \in 1..Len(alerts) : alerts[k].type \in {"FALL", "PRE_FALL"}

\* C37: when logout has completed, the alert collection is empty and the
\* selected-alert slot is empty.
C37_LogoutClearsAlerts ==
    last = Op("logout", 0, "void") => alerts = <<>> /\ selectedAlert = Null

\* C38: whenever the acknowledge control of the detail screen is enabled, the
\* alert displayed is the one of the route: selectedAlert.id equals the route
\* id that acknowledgeAlert will be called with.
C38_EnabledForDisplayed ==
    AcknowledgeEnabled => selectedAlert.id = route

\* C39: isLoading is true exactly while a fetchAlerts, fetchAlertDetail or
\* acknowledgeAlert is in flight, and isRefreshing exactly while a
\* refreshAlerts is.
C39_FlagsTrackInFlight ==
    /\ isLoading <=> \/ Pending("fetchAlerts")
                     \/ Pending("fetchAlertDetail")
                     \/ Pending("acknowledgeAlert")
    /\ isRefreshing <=> Pending("refreshAlerts")

\* C40: once a token refresh has settled, no request that got its 401 while
\* the refresh was in progress is still waiting: whenever no refresh is in
\* progress the queue is empty and no request is pending in it.
C40_QueueSettlesWithRefresh ==
    ~refreshing =>
        /\ failedQueue = <<>>
        /\ \A o \in Owners : calls[o].pc # "queued"

====
